---- MODULE Spec2Model ----
(***************************************************************************)
(* A model of the log filter-map index of indexer/filtermap: Params        *)
(* (params.go), FilterMap and potentialMatches (filtermap.go), the         *)
(* FilterMapsIndexer (indexer.go) and the matcher (matcher.go).            *)
(*                                                                         *)
(* The map geometry of DefaultParams (2^16 rows, 2^16 logs per map, 24-bit *)
(* column entries, 2^10 maps per epoch) is far beyond explicit-state       *)
(* checking, so the geometry below is a scaled-down Params value; every    *)
(* derived quantity is computed from it exactly as deriveFields does.      *)
(* SHA-256 is computed bit-exactly on 32-bit words held as two 16-bit      *)
(* halves, FNV-1a on 64-bit values held as eight bytes.                    *)
(***************************************************************************)
EXTENDS Naturals, Integers, Sequences, FiniteSets, TLC

(***************************************************************************)
(* Bounds of the model.                                                    *)
(***************************************************************************)
\* Params (params.go:14-25), scaled down from DefaultParams (params.go:27-34).
logMapHeight == 2
logMapWidth == 4
logMapsPerEpoch == 2
logValuesPerMap == 2
baseRowLengthRatio == 1
logLayerDiff == 2

\* Inputs of IndexLogs and FindLogsByRange.
NumAddresses == 2
NumTopics == 2
MaxTopics == 2
MaxBlocks == 3
MaxLogsPerCall == 5
NumSeeds == 2
MaxBulkLogsPerCall == 30
MaxFilterBlocks == 2
MaxFilterLogsPerCall == 4
MaxSparseBlocks == 4
MaxSparseLogsPerCall == 2
MaxPoolBlocks == 4
MaxPoolFirstLogs == 13
MaxPoolLogsPerCall == 52
MaxPoolFewLogs == 1
NumWriters == 2
MaxWriterBlocks == 3
MaxSpecBlocks == 2
MaxWideQueryLogs == 4
MaxOverlapCalls == 1

(***************************************************************************)
(* Program constants.                                                      *)
(***************************************************************************)
MaxCachedFilterMaps == 100
LvPointerCacheSize == 1000
EstimatedLogsPerBlock == 10
KeyPrefixFilterMap == 16
KeyPrefixLogData == 17
KeyPrefixBlockLvPointer == 21

\* nil of a map, a pointer or a slice: the function with the empty domain.
Nil == <<>>

(***************************************************************************)
(* Integer helpers: shifts and xor on naturals.                            *)
(***************************************************************************)
RECURSIVE Pow2(_)
Pow2(n) == IF n = 0 THEN 1 ELSE 2 * Pow2(n - 1)

Shl(x, n) == x * Pow2(n)
Shr(x, n) == x \div Pow2(n)

RECURSIVE Xor(_, _)
Xor(a, b) ==
  IF a = 0 THEN b
  ELSE IF b = 0 THEN a
  ELSE ((a + b) % 2) + 2 * Xor(a \div 2, b \div 2)

Min(a, b) == IF a < b THEN a ELSE b

\* F applied to the value of x, with x evaluated once.
With(x, F(_)) == CHOOSE r \in {F(v) : v \in {x}} : TRUE

Zeros(n) == [k \in 1..n |-> 0]

\* binary.LittleEndian.PutUint32 / PutUint64 of a value below 2^16.
le32(x) == <<x % 256, (x \div 256) % 256, 0, 0>>
le64(x) == <<x % 256, (x \div 256) % 256, 0, 0, 0, 0, 0, 0>>

(***************************************************************************)
(* Params.deriveFields (params.go:40-45).                                  *)
(***************************************************************************)
mapHeight == Pow2(logMapHeight)
mapsPerEpoch == Pow2(logMapsPerEpoch)
valuesPerMap == Pow2(logValuesPerMap)
baseRowLength == (valuesPerMap * baseRowLengthRatio) \div mapHeight

\* indexer.go:19-20: the constants IndexLogs uses; they equal the derived
\* fields of DefaultParams (65536 = 2^16, 1024 = 2^10).
LogsPerMap == Pow2(logValuesPerMap)
MapsPerEpoch == Pow2(logMapsPerEpoch)

(***************************************************************************)
(* Hashes.                                                                 *)
(***************************************************************************)
\* crypto/sha256 (FIPS 180-4).  A 32-bit word is a pair <<high, low>> of
\* 16-bit halves, so that no intermediate value passes 2^31.
pow2Table == <<1, 2, 4, 8, 16, 32, 64, 128, 256, 512, 1024, 2048, 4096,
               8192, 16384, 32768, 65536>>

RECURSIVE bitAnd(_, _)
bitAnd(a, b) ==
  IF a = 0 \/ b = 0 THEN 0
  ELSE (a % 2) * (b % 2) + 2 * bitAnd(a \div 2, b \div 2)

\* a & b of two bytes, at index 256 * a + b + 1; the concatenation makes the
\* table a sequence of values, each computed once.
andTable ==
  [i \in 1..65536 |-> bitAnd((i - 1) \div 256, (i - 1) % 256)] \o <<>>

and16(a, b) ==
  256 * andTable[256 * (a \div 256) + (b \div 256) + 1]
    + andTable[256 * (a % 256) + (b % 256) + 1]
xor16(a, b) == a + b - 2 * and16(a, b)

Half == 0..65535
Word == Half \X Half

wordAnd(x, y) == <<and16(x[1], y[1]), and16(x[2], y[2])>>
wordXor(x, y) == <<xor16(x[1], y[1]), xor16(x[2], y[2])>>
wordNot(x) == <<65535 - x[1], 65535 - x[2]>>

\* The sum modulo 2^32 of the words of the sequence ws (at most 5 of them).
RECURSIVE sumHalf(_, _, _)
sumHalf(ws, h, i) == IF i = 0 THEN 0 ELSE ws[i][h] + sumHalf(ws, h, i - 1)

wordSum(ws) ==
  With(sumHalf(ws, 2, Len(ws)),
       LAMBDA lo : <<(sumHalf(ws, 1, Len(ws)) + lo \div 65536) % 65536,
                     lo % 65536>>)

\* bits.RotateLeft32(x, -n) and x >> n, 0 < n < 32.
shiftHalves(hi, lo, n, wrap) ==
  <<(hi \div pow2Table[n + 1])
      + (IF wrap THEN (lo % pow2Table[n + 1]) * pow2Table[17 - n] ELSE 0),
    (lo \div pow2Table[n + 1]) + (hi % pow2Table[n + 1]) * pow2Table[17 - n]>>

rotateRight(x, n) ==
  IF n < 16 THEN shiftHalves(x[1], x[2], n, TRUE)
  ELSE shiftHalves(x[2], x[1], n - 16, TRUE)

shiftRight(x, n) == shiftHalves(x[1], x[2], n, FALSE)

\* sha256block.go: _K, and sha256.go: init0..init7.
sha256K ==
  <<
    <<17034, 12184>>, <<28983, 17553>>, <<46528, 64463>>, <<59829, 56229>>,
    <<14678, 49755>>, <<23025, 4593>>, <<37439, 33444>>, <<43804, 24277>>,
    <<55303, 43672>>, <<4739, 23297>>, <<9265, 34238>>, <<21772, 32195>>,
    <<29374, 23924>>, <<32990, 45566>>, <<39900, 1703>>, <<49563, 61812>>,
    <<58523, 27073>>, <<61374, 18310>>, <<4033, 40390>>, <<9228, 41420>>,
    <<11753, 11375>>, <<19060, 33962>>, <<23728, 43484>>, <<30457, 35034>>,
    <<38974, 20818>>, <<43057, 50797>>, <<45059, 10184>>, <<48985, 32711>>,
    <<50912, 3059>>, <<54695, 37191>>, <<1738, 25425>>, <<5161, 10599>>,
    <<10167, 2693>>, <<11803, 8504>>, <<19756, 28156>>, <<21304, 3347>>,
    <<25866, 29524>>, <<30314, 2747>>, <<33218, 51502>>, <<37490, 11397>>,
    <<41663, 59553>>, <<43034, 26187>>, <<49739, 35696>>, <<51052, 20899>>,
    <<53650, 59417>>, <<54937, 1572>>, <<62478, 13701>>, <<4202, 41072>>,
    <<6564, 49430>>, <<7735, 27656>>, <<10056, 30540>>, <<13488, 48309>>,
    <<14620, 3251>>, <<20184, 43594>>, <<23452, 51791>>, <<26670, 28659>>,
    <<29839, 33518>>, <<30885, 25455>>, <<33992, 30740>>, <<36039, 520>>,
    <<37054, 65530>>, <<42064, 27883>>, <<48889, 41975>>, <<50801, 30962>> >>
sha256Init ==
  <<
    <<27145, 58983>>, <<47975, 44677>>, <<15470, 62322>>, <<42319, 62778>>,
    <<20750, 21119>>, <<39685, 26764>>, <<8067, 55723>>, <<23520, 52505>> >>

\* sha256block.go blockGeneric, the message schedule: w[i] from
\* v = <<w[i-2], w[i-7], w[i-15], w[i-16]>>.
sha256ScheduleWord[v \in Word \X Word \X Word \X Word] ==
  wordSum(<<wordXor(wordXor(rotateRight(v[1], 17), rotateRight(v[1], 19)),
                    shiftRight(v[1], 10)),
            v[2],
            wordXor(wordXor(rotateRight(v[3], 7), rotateRight(v[3], 18)),
                    shiftRight(v[3], 3)),
            v[4]>>)

\* The schedule words lo..hi appended to w, the range taken in two halves.
RECURSIVE sha256Schedule(_, _, _)
sha256Schedule(w, lo, hi) ==
  IF lo > hi THEN w
  ELSE IF lo = hi
       THEN Append(w, sha256ScheduleWord[<<w[lo - 2], w[lo - 7], w[lo - 15],
                                           w[lo - 16]>>])
  ELSE With(sha256Schedule(w, lo, (lo + hi) \div 2),
            LAMBDA mid : sha256Schedule(mid, (lo + hi) \div 2 + 1, hi))

\* One round: v = <<s, k, w>>, the working variables
\* s = <<a, b, c, d, e, f, g, h>>, the round constant and the schedule word.
sha256Round[v \in Seq(Word) \X Word \X Word] ==
  With(<<wordSum(<<v[1][8],
                   wordXor(wordXor(rotateRight(v[1][5], 6),
                                   rotateRight(v[1][5], 11)),
                           rotateRight(v[1][5], 25)),
                   wordXor(wordAnd(v[1][5], v[1][6]),
                           wordAnd(wordNot(v[1][5]), v[1][7])),
                   v[2], v[3]>>),
         wordSum(<<wordXor(wordXor(rotateRight(v[1][1], 2),
                                   rotateRight(v[1][1], 13)),
                           rotateRight(v[1][1], 22)),
                   wordXor(wordXor(wordAnd(v[1][1], v[1][2]),
                                   wordAnd(v[1][1], v[1][3])),
                           wordAnd(v[1][2], v[1][3]))>>)>>,
       LAMBDA t :
         <<wordSum(<<t[1], t[2]>>), v[1][1], v[1][2], v[1][3],
           wordSum(<<v[1][4], t[1]>>), v[1][5], v[1][6], v[1][7]>>)

\* The rounds lo..hi on s, the range taken in two halves.
RECURSIVE sha256Rounds(_, _, _, _)
sha256Rounds(s, w, lo, hi) ==
  IF lo = hi THEN sha256Round[<<s, sha256K[lo], w[lo]>>]
  ELSE With(sha256Rounds(s, w, lo, (lo + hi) \div 2),
            LAMBDA mid : sha256Rounds(mid, w, (lo + hi) \div 2 + 1, hi))

\* The 64-byte chunk of p that starts after offset, as 16 big-endian words,
\* folded into the chaining value h.
sha256Block(h, p, offset) ==
  With(sha256Schedule([i \in 1..16 |->
                   <<256 * p[offset + 4 * i - 3] + p[offset + 4 * i - 2],
                     256 * p[offset + 4 * i - 1] + p[offset + 4 * i]>>],
                17, 64),
       LAMBDA w :
         With(sha256Rounds(h, w, 1, 64),
              LAMBDA s : [i \in 1..8 |-> wordSum(<<h[i], s[i]>>)]))

RECURSIVE sha256Blocks(_, _, _)
sha256Blocks(h, p, offset) ==
  IF offset >= Len(p) THEN h
  ELSE With(sha256Block(h, p, offset), LAMBDA next : sha256Blocks(next, p, offset + 64))

\* digest.checkSum: the padding 0x80, zeros up to 56 modulo 64, and the bit
\* length as a big-endian uint64 (messages are shorter than 2^13 bytes).
sha256Padding(len) ==
  <<128>> \o Zeros((119 - (len % 64)) % 64)
    \o <<0, 0, 0, 0, 0, (len \div 8192) % 256, (len \div 32) % 256, (len % 32) * 8>>

\* sha256.New, Write(bytes), Sum: the digest as 32 bytes.
sha256(bytes) ==
  With(sha256Blocks(sha256Init, bytes \o sha256Padding(Len(bytes)), 0),
       LAMBDA h :
         [i \in 1..32 |->
            With(h[(i + 3) \div 4],
                 LAMBDA x : IF (i - 1) % 4 = 0 THEN x[1] \div 256
                            ELSE IF (i - 1) % 4 = 1 THEN x[1] % 256
                            ELSE IF (i - 1) % 4 = 2 THEN x[2] \div 256
                            ELSE x[2] % 256)] \o <<>>)

\* hash/fnv New64a: a 64-bit value is a sequence of eight bytes, low first.
\* The offset basis 0xcbf29ce484222325 and the prime 0x100000001b3.
fnvOffset64 == <<37, 35, 34, 132, 228, 156, 242, 203>>

\* x * 0x1b3 + (x << 40), modulo 2^64, byte by byte with carry.
RECURSIVE fnvMulFrom(_, _, _)
fnvMulFrom(x, i, carry) ==
  IF i > 8 THEN <<>>
  ELSE LET t == x[i] * 435 + (IF i > 5 THEN x[i - 5] ELSE 0) + carry
       IN  <<t % 256>> \o fnvMulFrom(x, i + 1, t \div 256)

fnvMul(x) == fnvMulFrom(x, 1, 0)

\* The hash after bytes[lo..hi], the range taken in two halves.
RECURSIVE fnv64aFrom(_, _, _, _)
fnv64aFrom(h, bytes, lo, hi) ==
  IF lo > hi THEN h
  ELSE IF lo = hi THEN fnvMul([h EXCEPT ![1] = Xor(h[1], bytes[lo])])
  ELSE With(fnv64aFrom(h, bytes, lo, (lo + hi) \div 2),
            LAMBDA mid : fnv64aFrom(mid, bytes, (lo + hi) \div 2 + 1, hi))

fnv64a(bytes) ==
  With(bytes, LAMBDA bz : fnv64aFrom(fnvOffset64, bz, 1, Len(bz)))

(***************************************************************************)
(* Addresses, topics and logs.                                             *)
(***************************************************************************)
Addresses == 1..NumAddresses
Topics == 1..NumTopics

\* common.HexToAddress("0x<a>"): 20 bytes, right-aligned.
AddressBytes(a) == Zeros(19) \o <<a>>
\* common.Hash{t}: 32 bytes, the first one set.
TopicBytes(t) == <<t>> \o Zeros(31)

\* sha256 of the bytes of the addresses and of the topics, tabulated: entry a
\* is sha256(AddressBytes(a)), entry t is sha256(TopicBytes(t)).
addressValueTable ==
  <<
    <<233, 255, 14, 110, 109, 233, 93, 165, 111, 240, 159, 78, 62, 15, 72,
      29, 103, 88, 95, 10, 104, 170, 253, 238, 240, 248, 111, 123, 133,
      51, 206, 23>>,
    <<49, 139, 143, 48, 129, 82, 83, 188, 174, 110, 239, 143, 243, 219,
      213, 46, 255, 210, 205, 193, 246, 142, 246, 173, 191, 75, 212, 219,
      231, 100, 108, 176>>,
    <<10, 116, 234, 41, 45, 228, 20, 169, 249, 182, 108, 235, 128, 73,
      209, 236, 159, 140, 17, 104, 210, 12, 236, 12, 139, 167, 241, 26,
      215, 204, 255, 195>> >>
topicValueTable ==
  <<
    <<1, 208, 250, 189, 37, 31, 203, 190, 43, 147, 180, 185, 39, 178, 106,
      210, 161, 169, 144, 119, 21, 46, 69, 222, 209, 230, 120, 175, 164,
      93, 190, 197>>,
    <<87, 120, 249, 133, 219, 117, 76, 102, 40, 105, 31, 86, 250, 218,
      229, 12, 101, 253, 219, 232, 235, 46, 147, 3, 150, 51, 254, 250, 5,
      212, 94, 49>>,
    <<145, 211, 130, 127, 5, 47, 90, 75, 68, 213, 254, 43, 237, 101, 124,
      117, 34, 71, 54, 93, 148, 248, 10, 51, 203, 9, 193, 67, 106, 22,
      177, 37>> >>

\* params.go:47-53
addressValue(a) == addressValueTable[a]
\* params.go:55-61
topicValue(t) == topicValueTable[t]

LogValues == {addressValue(a) : a \in Addresses} \cup {topicValue(t) : t \in Topics}

DigestsDistinct == Cardinality(LogValues) = NumAddresses + NumTopics

(***************************************************************************)
(* Params: rowIndex, columnIndex, maskedMapIndex, maxRowLength.            *)
(***************************************************************************)
\* The clamped layer shift shared by maskedMapIndex and maxRowLength.
layerShift(layerIndex) == Min(layerIndex * logLayerDiff, logMapsPerEpoch)

\* maskedMapIndex clearing layerShift low bits of the map index.
maskedMapIndexByShift(mapIndex, layerIndex) ==
  Shl(Shr(mapIndex, layerShift(layerIndex)), layerShift(layerIndex))

\* params.go:86-92: mapIndex & (MaxUint32 << (logMapsPerEpoch - shift)).
maskedMapIndex(mapIndex, layerIndex) ==
  LET k == logMapsPerEpoch - layerShift(layerIndex)
  IN  Shl(Shr(mapIndex, k), k)

\* maxRowLength growing by one bit of shift at most.
maxRowLengthOneStep(layerIndex) ==
  Shl(baseRowLength, Min(layerShift(layerIndex), 1))

\* params.go:94-100
maxRowLength(layerIndex) == Shl(baseRowLength, layerShift(layerIndex))

\* params.go:63-73.  mapHeight divides 2^16, so of the four bytes read only
\* the low two decide the remainder.
computeRowIndex(mapIndex, layerIndex, logValue) ==
  With(sha256(logValue \o le32(maskedMapIndex(mapIndex, layerIndex))
                           \o le32(layerIndex)),
       LAMBDA hash : (hash[1] + 256 * hash[2]) % mapHeight)

\* params.go:75-84.  hash>>(64-hashBits) is the top hashBits bits of byte 8,
\* uint32(hash)>>(32-hashBits) the top hashBits bits of byte 4.
hashBits == logMapWidth - logValuesPerMap

\* columnIndex taking one more bit of each half of the hash than hashBits.
computeColumnIndexWide(lvIndex, logValue) ==
  With(fnv64a(le64(lvIndex) \o logValue),
       LAMBDA hash :
         Shl(lvIndex % valuesPerMap, hashBits)
           + Xor(Shr(hash[8], 8 - hashBits - 1), Shr(hash[4], 8 - hashBits - 1)))

computeColumnIndex(lvIndex, logValue) ==
  With(fnv64a(le64(lvIndex) \o logValue),
       LAMBDA hash :
         Shl(lvIndex % valuesPerMap, hashBits)
           + Xor(Shr(hash[8], 8 - hashBits), Shr(hash[4], 8 - hashBits)))

\* The low two bytes, as a number, of the digest rowIndex reads for the
\* address a or the topic t, the layer l and the masked map index k, at
\* [a][l + 1][k + 1]: sha256(value \o le32(k) \o le32(l)) tabulated for the
\* maps and layers the specifications reach.
addressRowHashes ==
<<
  <<
     <<45460, 56826, 20674, 37348, 29128, 14483, 44283, 38817, 34502,
       24272, 24846, 64379, 57733, 15758, 45924, 1627, 2514, 62370, 19758,
       7440, 1939, 3063, 9207, 40937, 64910>>,
     <<28877, 61705, 50624, 34315, 49776, 34658, 57255, 50111, 705, 12755,
       9201, 8864, 27019, 64495, 51497, 43721, 2570, 41130, 4739, 11252,
       31510, 5415, 63388, 39971, 5798>>,
     <<54036, 32138, 2510, 15015, 46745, 19929, 575, 32592, 25307, 50988,
       43843, 54162, 55861, 56306, 12578, 39677, 43864, 11690, 64738,
       50411, 11560, 51233, 44046, 5331, 8006>>,
     <<33737, 18787, 10620, 51752, 34664, 59060, 30985, 56603, 26019,
       9990, 37715, 40917, 10702, 14112, 42885, 64417, 31531, 136, 34320,
       22529, 17326, 64945, 21210, 47681, 53796>>,
     <<14327, 56817, 50672, 2743, 63927, 27940, 11687, 36390, 23897,
       14246, 11157, 52301, 22143, 61542, 27464, 59382, 48951, 41457,
       10181, 260, 26222, 11886, 49395, 10307, 23705>>,
     <<65381, 2045, 49028, 6311, 11277, 6876, 61064, 40192, 32494, 57552,
       48003, 36522, 43114, 17104, 26627, 36629, 30792, 24719, 7836, 3964,
       28426, 13463, 64757, 11248, 34853>>,
     <<15342, 61820, 17426, 37886, 1938, 43085, 49092, 35986, 52920,
       48582, 2970, 29835, 29161, 58119, 61773, 34441, 48422, 62235,
       44934, 57010, 49484, 25040, 62785, 27619, 62106>>,
     <<44482, 56559, 58781, 2940, 62999, 26429, 55715, 13263, 33780,
       24049, 33295, 5616, 3066, 18954, 27235, 65266, 52660, 18822, 41881,
       30012, 3908, 24637, 30653, 1078, 50672>>,
     <<19804, 650, 65056, 7010, 31341, 61977, 57921, 30632, 46873, 41896,
       55303, 55397, 33083, 19746, 58245, 32985, 37580, 55348, 37666,
       34945, 44946, 39947, 49286, 40326, 52008>>,
     <<56141, 8756, 50460, 22766, 22483, 41717, 7027, 16230, 33452, 51,
       12483, 34644, 23925, 35615, 1063, 59322, 39222, 47975, 35103,
       42924, 24129, 19206, 4718, 53111, 17515>>,
     <<55649, 28328, 57957, 35770, 65145, 24205, 25570, 48131, 14828,
       25491, 45707, 24821, 61316, 46157, 2103, 31579, 56538, 53543,
       64880, 23605, 37163, 42513, 48811, 1004, 42595>>,
     <<51759, 13904, 46736, 18005, 19890, 49169, 54538, 24258, 9626,
       35761, 34275, 58705, 47608, 9503, 62788, 37011, 36343, 24155, 674,
       4855, 54925, 59887, 22560, 52037, 64162>>,
     <<15842, 19807, 17159, 40565, 41093, 43166, 9755, 19729, 58047,
       17347, 19523, 43462, 50013, 55912, 55584, 24335, 31038, 55768,
       29930, 41249, 12011, 34671, 6730, 40917, 31493>>,
     <<4705, 22950, 50955, 6403, 19973, 31544, 6187, 14709, 37615, 3571,
       65511, 39100, 61675, 7108, 45691, 2120, 43429, 12745, 16882, 37323,
       208, 54478, 28994, 19887, 11414>>,
     <<24592, 60176, 39130, 12695, 19199, 32213, 25853, 45455, 55245,
       59290, 57961, 36706, 24722, 42291, 55091, 32504, 340, 61221, 60281,
       21818, 46062, 37566, 41613, 47970, 9581>>,
     <<5568, 38063, 84, 476, 34376, 51973, 37194, 65241, 31416, 21797,
       2458, 36502, 55197, 10115, 16422, 45941, 25939, 49495, 16659,
       40692, 30606, 33539, 61562, 19760, 42925>>,
     <<26189, 34476, 3106, 3524, 50659, 23826, 18409, 14328, 25156, 20936,
       35244, 41808, 37307, 5725, 12433, 41036, 10063, 34863, 20837,
       13464, 29830, 2440, 2451, 40624, 50095>>,
     <<32780, 21476, 48684, 45634, 63669, 25895, 4049, 50112, 26321,
       23656, 41695, 40761, 46386, 13948, 11788, 14843, 12143, 17045,
       40695, 19171, 51546, 55505, 3800, 64817, 31026>>,
     <<9169, 43307, 19185, 3245, 62797, 29809, 18534, 47246, 12191, 61410,
       14854, 33775, 19727, 32041, 62554, 54735, 31538, 28192, 11644,
       60015, 48030, 45746, 36623, 42543, 63315>>,
     <<11265, 58559, 55648, 340, 62893, 6700, 39971, 41706, 51500, 5290,
       55536, 30420, 557, 30228, 16480, 5785, 29484, 61233, 16821, 56875,
       29952, 41608, 16168, 63379, 53474>>,
     <<39317, 64498, 14458, 11014, 23891, 5537, 16731, 32990, 7104, 19077,
       21935, 48409, 29160, 47928, 23502, 47572, 2954, 28800, 28090,
       41632, 57351, 4404, 27956, 10435, 63538>>,
     <<16846, 48834, 55557, 4607, 6034, 4584, 40334, 13695, 18322, 23888,
       6748, 52491, 55316, 55357, 23127, 43881, 46932, 52488, 17813,
       26952, 33419, 35993, 39301, 25601, 35198>> >>,
  <<
     <<33895, 60129, 64058, 58943, 58205, 31381, 55179, 50838, 17446,
       42467, 34340, 11532, 10513, 23571, 20642, 48634, 64734, 47717,
       61964, 16692, 39793, 61345, 352, 46319, 28533>>,
     <<22266, 49099, 39059, 39377, 8108, 57233, 4894, 22809, 58788, 64213,
       30997, 3458, 20722, 41222, 13346, 20085, 31386, 5898, 32982, 10152,
       21264, 42010, 2487, 25185, 39641>>,
     <<22771, 55937, 10807, 50330, 12363, 55711, 49048, 32068, 45949,
       61781, 57416, 45557, 25348, 38799, 885, 65134, 19322, 41871, 22647,
       7744, 52934, 29973, 61497, 5631, 38492>>,
     <<2376, 21836, 43738, 13852, 58145, 39019, 10367, 13900, 25597,
       53052, 63640, 57876, 4765, 1329, 61808, 12824, 34872, 15180, 53535,
       48150, 61270, 10251, 54110, 49312, 33477>>,
     <<46645, 41232, 27794, 23409, 44170, 10357, 6663, 1663, 64487, 62240,
       33795, 63156, 2956, 30567, 51642, 56741, 33249, 39351, 64235,
       22676, 34925, 607, 37105, 39983, 45191>>,
     <<23859, 8569, 49255, 27785, 17309, 21035, 48542, 30565, 46136,
       40313, 43794, 64800, 17783, 59767, 36359, 18028, 46670, 3567,
       56436, 27021, 26288, 41551, 44375, 47072, 56153>>,
     <<52053, 15641, 28065, 34751, 59175, 20771, 42490, 64129, 54518,
       45596, 24343, 31156, 28810, 23561, 17988, 30861, 23590, 34607,
       57782, 186, 10864, 30636, 40894, 36180, 21601>>,
     <<59507, 47235, 14248, 17542, 16062, 23531, 44389, 40788, 53054,
       29625, 10628, 23119, 52662, 27131, 5084, 21410, 15293, 35670, 8966,
       26738, 11439, 26575, 29027, 39927, 44144>>,
     <<32648, 44938, 43553, 5307, 11505, 14065, 40513, 3802, 2274, 48052,
       61187, 11204, 15255, 16496, 31766, 38598, 9789, 16655, 25769, 6832,
       34899, 45959, 32345, 56382, 62133>>,
     <<18174, 38713, 12346, 10844, 402, 60382, 63296, 12411, 15911, 28154,
       51085, 22567, 3586, 14886, 58484, 9442, 37371, 15565, 50590, 52608,
       13390, 27471, 48502, 3429, 20798>>,
     <<62502, 1576, 36809, 1916, 16492, 51531, 56042, 6971, 34283, 28490,
       33212, 3565, 64045, 17919, 39586, 42631, 3257, 36441, 4067, 46245,
       57762, 15717, 22025, 18241, 25915>>,
     <<14370, 41881, 26685, 33538, 14519, 25826, 10620, 17074, 40131,
       43507, 48612, 59619, 45745, 37677, 45147, 39615, 39363, 60729,
       51993, 53914, 17674, 51909, 30595, 30469, 59092>>,
     <<7043, 20759, 14231, 46365, 44379, 277, 30068, 63279, 30502, 19541,
       38274, 28824, 11433, 35984, 57847, 14455, 24148, 823, 5439, 25965,
       12848, 46623, 39718, 10034, 13982>>,
     <<5952, 25243, 48845, 52128, 64841, 9405, 26936, 65073, 18531, 12116,
       18983, 52209, 2239, 60428, 21214, 11443, 2429, 7949, 735, 47795,
       11154, 22242, 64469, 12979, 27433>>,
     <<4399, 15177, 2115, 615, 6472, 50935, 43532, 43218, 53662, 54190,
       32134, 31989, 38829, 14177, 12607, 32072, 27440, 24589, 14839,
       35799, 27110, 33613, 25043, 54327, 58971>>,
     <<30509, 53502, 7378, 58759, 3796, 24947, 10490, 51779, 24576, 8135,
       14734, 25031, 55638, 58468, 2356, 26218, 65288, 33726, 62317,
       44657, 2731, 19980, 59834, 46390, 30424>>,
     <<62152, 20042, 1990, 57402, 40966, 57791, 27189, 58435, 4938, 23574,
       27689, 17132, 8498, 46501, 5947, 49678, 50287, 25024, 14979, 48235,
       13842, 23150, 2093, 46485, 13753>>,
     <<44538, 34368, 60303, 54429, 20359, 49592, 17433, 36869, 61614,
       54225, 26199, 62841, 58738, 40955, 3773, 12152, 53276, 3286, 34014,
       6140, 13868, 30094, 17688, 19023, 13614>>,
     <<51794, 30858, 26916, 10137, 34610, 27166, 16198, 49416, 50832,
       58105, 5432, 12537, 26983, 27531, 35192, 11758, 41342, 16838,
       46301, 21652, 53105, 21067, 38046, 48230, 20624>>,
     <<7090, 30339, 46894, 24925, 23029, 17927, 32766, 54857, 51739,
       33428, 33438, 2235, 16338, 19345, 17037, 6381, 50971, 43828, 36305,
       47757, 57774, 48462, 28698, 62097, 41511>>,
     <<5247, 47465, 43656, 60189, 13221, 19384, 34203, 49218, 42806,
       33294, 65252, 10362, 40629, 63102, 8363, 58066, 2930, 1754, 40987,
       44615, 21167, 46587, 54, 58091, 28323>>,
     <<39419, 55183, 7686, 47664, 27388, 23093, 26360, 36248, 20014,
       63964, 288, 2258, 58452, 12620, 17356, 24860, 8124, 57971, 24903,
       61284, 19396, 56404, 16583, 42141, 41481>> >>,
  <<
     <<64739, 26822, 45973, 26724, 9813, 11877, 21349, 2632, 32228, 63756,
       48617, 18027, 1273, 39520, 51804, 65301, 49250, 62961, 14063,
       17645, 63159, 5461, 52828, 13169, 45613>>,
     <<8962, 55497, 13813, 792, 9140, 49185, 59530, 24388, 11524, 7046,
       57972, 40397, 17923, 19967, 44106, 32115, 13151, 10712, 22215,
       12331, 26788, 29648, 36852, 32812, 1095>>,
     <<52505, 48368, 12714, 31653, 49957, 2298, 2663, 28845, 61521, 35985,
       7160, 49431, 1641, 63918, 42391, 48533, 35951, 29529, 50874, 57891,
       64148, 41078, 59411, 33056, 46612>>,
     <<61323, 34381, 3133, 25819, 52908, 14930, 63635, 15057, 38348, 4806,
       49159, 61291, 26757, 40988, 14701, 33138, 44828, 11403, 41860,
       31999, 21683, 28702, 49776, 6371, 30924>>,
     <<46527, 8901, 27099, 64925, 5107, 36108, 28771, 1575, 54770, 35938,
       40208, 62793, 40774, 22332, 14282, 40449, 54960, 46582, 35821,
       13145, 40704, 16286, 1651, 41972, 34444>>,
     <<50805, 11710, 15397, 51757, 65517, 33399, 9259, 17086, 20578,
       17275, 13848, 52833, 53370, 17454, 6290, 19470, 13298, 9187, 56956,
       36488, 53817, 3345, 11576, 19809, 30676>>,
     <<11617, 32816, 47623, 43413, 27853, 4501, 59975, 54333, 51992,
       32392, 18805, 41155, 3391, 15367, 63765, 53932, 64239, 25976,
       57305, 38185, 31726, 41572, 21793, 8643, 53122>>,
     <<20364, 55109, 22264, 46015, 58354, 1361, 62736, 47608, 57305,
       31243, 58818, 38870, 14293, 59244, 20269, 42199, 30404, 51129,
       22928, 36303, 37096, 13099, 50734, 47494, 52117>>,
     <<58011, 7765, 65329, 57015, 5349, 4154, 63556, 33703, 52464, 60245,
       60116, 22319, 7140, 5764, 33006, 657, 25434, 42300, 17291, 36095,
       59594, 34350, 26487, 826, 49286>>,
     <<56106, 37558, 35953, 32347, 26707, 4472, 35180, 28761, 24924,
       56350, 23495, 17311, 35959, 34157, 32628, 1619, 4194, 38145, 4166,
       14017, 45599, 10896, 54954, 58307, 503>>,
     <<31972, 30706, 24605, 46077, 2039, 59212, 47333, 61727, 14267, 5485,
       27511, 16973, 51674, 30303, 24251, 6297, 48957, 7542, 11300, 15047,
       37990, 7423, 52576, 6143, 21255>>,
     <<56802, 65177, 63494, 54417, 25539, 42863, 64368, 5909, 35213, 2214,
       3782, 30049, 26903, 47964, 45889, 42394, 18760, 7678, 21919, 64665,
       20599, 45217, 57240, 1925, 28199>>,
     <<6962, 57006, 57766, 63467, 48861, 54512, 51727, 64109, 55533,
       10594, 45756, 18723, 30966, 33651, 58988, 17611, 30996, 6444,
       55376, 60354, 55184, 45080, 16161, 59385, 44254>>,
     <<58262, 54230, 17366, 19803, 19139, 2146, 55144, 50510, 53321,
       44225, 52856, 739, 56829, 24986, 15895, 27777, 50232, 28739, 16395,
       58506, 3662, 29096, 58702, 6825, 22245>>,
     <<65223, 65181, 41045, 7361, 65216, 7081, 57636, 14875, 5525, 51769,
       50975, 1170, 12047, 34426, 28787, 55990, 45573, 366, 35849, 51602,
       916, 5497, 52735, 35124, 45412>>,
     <<51985, 36127, 18197, 36842, 44651, 29818, 44337, 15694, 38199,
       54766, 8287, 47621, 22704, 49622, 30797, 45077, 36734, 52359,
       48224, 37325, 14676, 32661, 51895, 12649, 15580>>,
     <<50575, 58063, 9956, 24486, 14305, 47457, 45238, 1390, 21621, 10560,
       64509, 23992, 50242, 2576, 39737, 22213, 15221, 18442, 41558,
       22132, 44178, 11924, 52485, 22252, 51496>>,
     <<29445, 56407, 33656, 60607, 14938, 33925, 13758, 63397, 5266,
       32230, 54660, 20270, 459, 35400, 36370, 15322, 31082, 48713, 29199,
       39289, 13925, 58622, 18936, 31073, 36232>>,
     <<12830, 38339, 61726, 42940, 19220, 64533, 60688, 20417, 51690,
       64887, 36529, 62221, 9984, 45407, 27623, 57797, 55930, 28389,
       47966, 26959, 3854, 9948, 10598, 20256, 21710>>,
     <<37985, 13972, 14768, 31071, 61292, 24579, 11302, 34580, 3950,
       24872, 23143, 44045, 19353, 29399, 9737, 58048, 51164, 41440,
       28903, 35082, 18193, 3170, 1696, 52221, 52377>>,
     <<1449, 33981, 54595, 33235, 13206, 12801, 13784, 2203, 31185, 29704,
       44084, 49702, 63910, 32504, 14879, 29444, 31127, 38438, 33511,
       45642, 33036, 62515, 65488, 21711, 30508>>,
     <<13768, 27373, 60801, 3266, 60778, 20103, 35808, 23061, 55658,
       48181, 1503, 10416, 65369, 23068, 43252, 54169, 50734, 4606, 36687,
       57503, 52074, 52687, 29446, 37867, 15875>> >> >>
topicRowHashes ==
<<
  <<
     <<49516, 9574, 39261, 48237, 63493, 31979, 40946, 13920, 24896,
       17936, 22679, 62101, 59080, 6754, 4537, 8599, 46253, 43702, 3683,
       62544, 39824, 50854, 60596, 38443, 46749>>,
     <<4853, 41956, 57252, 36894, 33524, 21030, 55327, 56621, 12299,
       42973, 48337, 37404, 37411, 42118, 61573, 42277, 25336, 57604,
       24868, 14749, 22805, 4723, 12224, 58935, 36349>>,
     <<63561, 61402, 42755, 21782, 32420, 42244, 49731, 15340, 60939,
       63121, 61775, 27152, 37089, 8362, 52136, 44630, 7823, 37964, 19659,
       10094, 50252, 4971, 50834, 18641, 9627>>,
     <<2655, 54169, 61530, 53033, 14727, 62027, 13724, 64279, 25318,
       38661, 14845, 59106, 34877, 52596, 18044, 16973, 9663, 30855,
       25027, 264, 44441, 58031, 10717, 41181, 4196>>,
     <<26695, 47908, 55942, 10889, 23610, 3846, 41136, 55330, 55736,
       53253, 40508, 32471, 29027, 3322, 16945, 48946, 30190, 13432,
       11318, 34530, 30413, 4768, 7476, 29706, 16857>>,
     <<57463, 14755, 24704, 14519, 37606, 40964, 11301, 34620, 52798,
       17714, 32519, 6615, 58292, 51325, 33587, 48294, 52594, 41410,
       10713, 39650, 1022, 13319, 331, 44616, 60063>>,
     <<9727, 11810, 15362, 46963, 42688, 23184, 33292, 25640, 9754, 12976,
       58986, 11818, 63939, 35099, 11894, 57846, 11524, 41948, 20137,
       12261, 44848, 62992, 7863, 21713, 20558>>,
     <<31784, 24153, 6703, 1298, 30666, 62939, 4822, 18606, 59540, 47565,
       3422, 44129, 4055, 31035, 41749, 23643, 55928, 779, 22710, 21578,
       27367, 47737, 36078, 25848, 29969>>,
     <<28725, 3828, 47605, 54469, 4215, 41897, 50680, 46192, 45576, 36267,
       390, 37891, 16476, 19284, 8698, 22015, 27004, 61183, 36948, 20850,
       1277, 49024, 190, 53710, 65042>>,
     <<22887, 7220, 52746, 20681, 64491, 1195, 29018, 7854, 33801, 28344,
       50640, 48994, 3547, 12051, 21285, 23449, 30211, 33656, 3163, 41753,
       27616, 55952, 64002, 62684, 29237>>,
     <<24828, 18535, 10194, 57974, 35765, 64733, 59506, 3510, 41443,
       45516, 51493, 55501, 51976, 57416, 35112, 62803, 51385, 24514,
       12175, 52111, 22244, 4752, 6455, 10542, 33506>>,
     <<40249, 55834, 3199, 41019, 17862, 43622, 62824, 63749, 40002, 8346,
       63408, 65493, 21223, 4224, 60162, 26684, 6134, 30703, 46772, 59223,
       54676, 24421, 58575, 29058, 15053>>,
     <<989, 39670, 30111, 59031, 27927, 36713, 21769, 44608, 51590, 13791,
       52725, 17771, 23226, 57667, 30802, 26108, 55608, 5294, 59233,
       42945, 45493, 46832, 16654, 8620, 56547>>,
     <<64860, 32483, 65531, 51395, 10543, 47776, 13963, 33716, 7046,
       35183, 12621, 17356, 8760, 19365, 25805, 58494, 44561, 9666, 51722,
       18268, 30986, 1397, 20380, 26767, 4977>>,
     <<9643, 16178, 29895, 50352, 53169, 20541, 47321, 34444, 22927,
       54499, 53194, 14790, 30656, 51655, 3203, 40220, 5707, 51785, 18978,
       22363, 33921, 28826, 24597, 24547, 45131>>,
     <<28097, 24379, 11048, 57063, 37942, 47333, 55196, 60687, 12345,
       40225, 36047, 20606, 37856, 56859, 27338, 4738, 14076, 1642, 55634,
       64222, 16342, 45907, 21948, 35429, 38312>>,
     <<43927, 25813, 3194, 9024, 31700, 34184, 11897, 12362, 54585, 18460,
       35145, 62278, 49591, 3765, 26273, 28952, 41244, 52077, 64886,
       39674, 8847, 52045, 59645, 50688, 43367>>,
     <<37252, 55284, 34360, 52264, 15484, 43485, 1303, 36774, 47385,
       44350, 50540, 37904, 39616, 64713, 18648, 5542, 63518, 61642,
       60839, 63824, 5817, 9555, 4997, 47163, 11886>>,
     <<2247, 51341, 7279, 64217, 49529, 63240, 37932, 18662, 27428, 59402,
       8457, 633, 57802, 33725, 64593, 40597, 61457, 19411, 22614, 60588,
       29474, 18775, 36521, 29561, 50560>>,
     <<12311, 21053, 50258, 61198, 9859, 39800, 49054, 25134, 28245,
       21444, 793, 10167, 28321, 56224, 36950, 12224, 40848, 27229, 49489,
       14570, 14215, 37741, 61655, 37742, 54405>>,
     <<37930, 6971, 58040, 45616, 32694, 48963, 59381, 48307, 17265,
       44366, 6988, 2043, 34757, 58144, 19092, 50087, 26714, 11690, 11164,
       7471, 20330, 65443, 46953, 47337, 34750>>,
     <<11803, 20179, 9440, 28033, 55312, 35640, 51150, 36325, 17985,
       17720, 40351, 12449, 53880, 11596, 24309, 4887, 33822, 6954, 40937,
       63891, 14545, 3359, 30513, 12070, 12979>> >>,
  <<
     <<45363, 65256, 2756, 3623, 46535, 17664, 55026, 740, 58612, 17275,
       6433, 9894, 21176, 44580, 45776, 31682, 8477, 33981, 35060, 14977,
       41069, 11175, 52144, 5985, 52370>>,
     <<28892, 45357, 12066, 48188, 25297, 5281, 28390, 59558, 9053, 36426,
       25931, 6375, 15737, 43312, 52408, 30128, 2604, 16455, 987, 968,
       46822, 22666, 63786, 28036, 1062>>,
     <<8108, 35126, 5624, 23433, 15886, 48807, 56570, 3308, 62135, 28459,
       235, 36840, 45470, 26899, 5492, 22406, 33789, 6253, 24635, 15844,
       20914, 49771, 50107, 3945, 47781>>,
     <<49641, 40062, 8638, 48223, 29934, 6423, 32492, 36532, 7056, 38198,
       55582, 28862, 19994, 9673, 42058, 17385, 50946, 15116, 40205,
       61799, 3729, 61275, 46466, 55261, 34948>>,
     <<31953, 24361, 33044, 4078, 39840, 3398, 37075, 27231, 30136, 55212,
       53063, 27920, 3495, 5844, 12112, 47934, 4914, 58406, 54099, 62220,
       43289, 2562, 51791, 39052, 23234>>,
     <<39480, 53775, 25232, 46350, 61883, 37904, 27031, 61155, 27709,
       40609, 56385, 10536, 20549, 10002, 53549, 42492, 63042, 11890,
       20400, 64085, 31071, 2177, 29657, 172, 52504>>,
     <<36050, 12051, 20601, 24172, 62561, 10379, 17136, 8844, 51637,
       61329, 43053, 11403, 10977, 25545, 13652, 31955, 14161, 43872,
       54817, 21091, 26537, 13692, 32309, 18265, 2714>>,
     <<8886, 45397, 23610, 12062, 10176, 10332, 37157, 13981, 3919, 18388,
       45349, 48386, 25143, 39623, 56586, 42395, 62437, 54371, 36688,
       22991, 38211, 38632, 51782, 5395, 55407>>,
     <<31214, 6054, 14063, 45782, 8073, 60407, 3540, 55151, 58285, 31019,
       40873, 25116, 39226, 63185, 59280, 38674, 13200, 29984, 15761,
       43484, 32475, 43799, 58055, 4757, 44948>>,
     <<50620, 17976, 9582, 25825, 27290, 10195, 64062, 62517, 31135, 5091,
       32250, 56329, 24046, 57760, 55150, 19211, 47966, 26443, 43138,
       65025, 223, 3830, 36267, 3131, 32459>>,
     <<28683, 58783, 64700, 28666, 59566, 51941, 30258, 50036, 45806,
       29769, 34897, 5079, 58186, 31590, 6199, 59712, 6035, 41469, 32657,
       37949, 47891, 8752, 51599, 27123, 1741>>,
     <<4101, 49221, 56683, 35830, 39348, 53001, 26110, 4865, 15321, 50945,
       2117, 62477, 1209, 6357, 16218, 57018, 23541, 8332, 35535, 28421,
       12337, 8629, 40272, 24508, 59187>>,
     <<13747, 29016, 47665, 57483, 12119, 18605, 33117, 25841, 43819,
       53366, 29645, 56134, 51849, 5599, 15018, 29440, 34871, 1943, 2523,
       8050, 29495, 38368, 25131, 60668, 58302>>,
     <<51426, 57984, 8234, 54770, 24500, 21141, 44411, 19903, 4109, 33061,
       40381, 52898, 5740, 25265, 28887, 38082, 31986, 31764, 39285,
       53256, 13961, 51960, 2137, 53910, 40826>>,
     <<37634, 24052, 44676, 5795, 44397, 28991, 45994, 50067, 2083, 15742,
       65086, 39930, 7878, 57681, 55767, 38046, 41756, 40244, 61327,
       20621, 61580, 40157, 52182, 18896, 10153>>,
     <<7661, 43300, 40617, 12844, 25887, 32896, 34395, 44510, 15713,
       58118, 5808, 44378, 29995, 40087, 25997, 56273, 12709, 10596,
       25225, 31443, 31357, 47088, 25423, 31942, 61341>>,
     <<20362, 1182, 48359, 34340, 51597, 56102, 3476, 36340, 18435, 22052,
       51169, 13018, 39076, 15254, 24807, 59094, 3568, 49560, 43009,
       43219, 41835, 12359, 65460, 17612, 4362>>,
     <<11511, 36965, 32816, 64255, 12062, 28223, 13363, 35368, 25857,
       49890, 32773, 58329, 53796, 29033, 5815, 5818, 62652, 10817, 22352,
       63071, 17712, 49130, 12022, 4806, 45350>>,
     <<19017, 51057, 8487, 33338, 49461, 6943, 40021, 11679, 631, 41531,
       13355, 16200, 44471, 53957, 43744, 36694, 5435, 59823, 20585, 2653,
       45139, 27974, 5818, 52034, 24711>>,
     <<47425, 61767, 10788, 37033, 8605, 60045, 38922, 13243, 5831, 11126,
       29110, 56194, 60393, 36356, 37692, 1740, 28157, 53864, 47682, 6355,
       36234, 54777, 30972, 8415, 14789>>,
     <<40192, 56302, 8655, 9056, 3577, 9049, 7638, 64760, 43925, 3072,
       56520, 56022, 59327, 20813, 40460, 32136, 49857, 25028, 9051, 3475,
       35868, 7465, 55174, 36034, 28305>>,
     <<48761, 23675, 24383, 15761, 7379, 55159, 5036, 3119, 53729, 22052,
       3853, 5200, 64268, 2617, 24864, 1096, 4387, 35869, 32257, 35094,
       7385, 14431, 45395, 54412, 47095>> >>,
  <<
     <<16920, 34431, 51454, 17500, 43784, 34396, 1228, 9482, 38796, 12600,
       49997, 32281, 539, 38518, 50140, 41418, 18472, 43981, 7153, 40221,
       19292, 6639, 60644, 18396, 20277>>,
     <<51098, 61595, 61862, 37789, 40066, 58507, 7856, 29797, 58729,
       11787, 53496, 55370, 3647, 22803, 21777, 7666, 37579, 52647, 20254,
       55215, 20806, 50443, 60538, 14047, 15891>>,
     <<54735, 44298, 2559, 17227, 23569, 25517, 23368, 38504, 55860,
       49834, 54143, 59595, 50634, 29312, 20233, 56855, 35446, 38816,
       8703, 31699, 36388, 58928, 675, 31621, 35558>>,
     <<53104, 31855, 3183, 34318, 45278, 65389, 4879, 3022, 41326, 39485,
       18275, 46962, 43281, 46460, 41918, 19, 33688, 50192, 42945, 9461,
       50397, 46891, 17144, 36448, 51645>>,
     <<58599, 18325, 4099, 54732, 59920, 10027, 8332, 64022, 31292, 62205,
       54070, 53905, 37006, 57197, 4171, 56409, 18581, 4903, 6727, 55542,
       16047, 16438, 23661, 13383, 54607>>,
     <<43003, 9795, 972, 27289, 58919, 47548, 30846, 54441, 49181, 1738,
       25772, 28722, 34708, 53739, 37839, 32918, 35564, 49960, 50226,
       15081, 852, 25682, 21259, 54811, 33829>>,
     <<1451, 32189, 7855, 58451, 14394, 59344, 65506, 20538, 47741, 12555,
       4272, 37083, 22420, 31543, 43050, 20540, 47650, 62551, 5942, 25745,
       24023, 11846, 50654, 61309, 63038>>,
     <<16456, 63579, 6738, 31266, 58260, 20750, 65250, 29705, 26303,
       64940, 28481, 33693, 24436, 24355, 27407, 63309, 61069, 52204,
       58788, 62108, 3811, 53618, 61302, 48956, 41712>>,
     <<875, 7070, 13283, 52330, 29041, 19379, 59377, 26674, 27712, 3364,
       10406, 24995, 4267, 7955, 35982, 37948, 54730, 55906, 27010, 28535,
       34029, 41442, 52767, 2694, 31750>>,
     <<12394, 23584, 25309, 46249, 46374, 11481, 38056, 23633, 20039,
       20686, 35151, 27764, 41920, 65291, 30023, 17331, 35814, 25462,
       41365, 17758, 3856, 31609, 770, 15143, 15611>>,
     <<24698, 54262, 26671, 31415, 22356, 21031, 45433, 47709, 23075,
       57609, 25868, 27657, 52663, 35182, 45833, 58074, 2429, 38699,
       14951, 12340, 2724, 38378, 36703, 15133, 8894>>,
     <<24585, 17259, 23050, 26325, 26003, 43996, 23531, 29374, 19935,
       39402, 44140, 64834, 13848, 3382, 29140, 64169, 54960, 56299,
       22600, 62606, 53066, 39485, 28297, 16396, 24999>>,
     <<23999, 12586, 36086, 44995, 17664, 35935, 62543, 63114, 59675,
       23589, 58357, 3630, 57839, 48785, 45531, 11056, 57971, 27794, 3993,
       50967, 17199, 54136, 26316, 7711, 4857>>,
     <<30122, 62880, 44284, 32472, 12626, 10942, 61933, 46599, 2833,
       44281, 58145, 63218, 3066, 32476, 48756, 48039, 14005, 15996, 6716,
       17276, 5625, 22036, 465, 42498, 43573>>,
     <<11217, 19268, 60759, 64165, 37821, 38444, 59797, 15780, 12499,
       48262, 5135, 3594, 17389, 6477, 65088, 34456, 9082, 18783, 17529,
       22625, 53215, 8898, 18740, 3078, 45639>>,
     <<23172, 49895, 49509, 46007, 4267, 57552, 58934, 20659, 25688,
       45775, 36254, 30362, 16897, 21792, 29430, 60701, 28726, 40794,
       22534, 54599, 42747, 49548, 47868, 27741, 1658>>,
     <<44841, 30518, 42190, 4093, 59296, 53, 36806, 735, 34344, 30921,
       52037, 28182, 43443, 54965, 2056, 34268, 18223, 39311, 16006,
       13741, 13665, 17790, 47360, 65210, 858>>,
     <<41719, 37872, 5391, 64118, 3513, 30947, 34679, 53123, 45975, 23937,
       57200, 60289, 899, 60755, 45985, 12681, 43727, 52797, 29167, 18272,
       26538, 4508, 21842, 5147, 34491>>,
     <<33064, 42450, 7249, 3386, 22950, 26665, 24036, 36348, 44908, 34432,
       13080, 30226, 5250, 25459, 24340, 855, 10286, 47658, 43198, 10827,
       51329, 60069, 39230, 51810, 62103>>,
     <<15865, 39521, 8743, 30468, 55917, 46435, 19341, 58714, 38530,
       28594, 59546, 17002, 62955, 34524, 35132, 45828, 43343, 14926,
       9774, 49681, 46808, 7187, 59703, 34568, 60660>>,
     <<64228, 2237, 58504, 54652, 20512, 7747, 62038, 21715, 43863, 49184,
       16572, 22039, 23657, 40812, 2858, 64022, 45218, 54112, 2882, 33873,
       61928, 32935, 10174, 2725, 3098>>,
     <<19006, 56092, 16308, 61830, 18445, 38821, 15575, 59861, 14361,
       19920, 39713, 4457, 7291, 21254, 22022, 55820, 49943, 51035, 44329,
       35651, 55844, 48893, 1290, 15031, 15284>> >> >>

tabulatedLayers == 0..(Len(addressRowHashes[1]) - 1)
tabulatedMaps == 0..(Len(addressRowHashes[1][1]) - 1)

\* The address and the topic a log value is the value of: <<a, t>>, 0 for
\* none.
valueSource(logValue) ==
  <<IF \E a \in Addresses : addressValueTable[a] = logValue
    THEN CHOOSE a \in Addresses : addressValueTable[a] = logValue ELSE 0,
    IF \E t \in Topics : topicValueTable[t] = logValue
    THEN CHOOSE t \in Topics : topicValueTable[t] = logValue ELSE 0>>

\* The number binary.LittleEndian.Uint32(hash[:4]) leaves modulo 2^16.
rowHash(maskedIndex, layerIndex, logValue) ==
  With(valueSource(logValue),
       LAMBDA s :
         IF s[1] > 0
         THEN addressRowHashes[s[1]][layerIndex + 1][maskedIndex + 1]
         ELSE topicRowHashes[s[2]][layerIndex + 1][maskedIndex + 1])

\* params.go:63-73 on the values of the addresses and topics.
rowIndex(mapIndex, layerIndex, logValue) ==
  rowHash(maskedMapIndex(mapIndex, layerIndex), layerIndex, logValue)
    % mapHeight

\* columnIndex computed once for the indices the model reaches and on demand
\* beyond them.
MaxPoolLogs ==
  MaxPoolFirstLogs + MaxPoolLogsPerCall + (MaxPoolBlocks - 2) * MaxPoolFewLogs
MaxTotalLogs ==
  IF MaxPoolLogs > MaxBulkLogsPerCall + MaxBlocks * MaxLogsPerCall
  THEN MaxPoolLogs ELSE MaxBulkLogsPerCall + MaxBlocks * MaxLogsPerCall
memoMaps == 0..(MaxTotalLogs \div valuesPerMap)
memoLayers == 0..(2 * mapHeight)
memoIndices == 0..(MaxTotalLogs + valuesPerMap)

columnIndexMemo ==
  [i \in memoIndices |-> [v \in LogValues |-> computeColumnIndex(i, v)]]

columnIndex(lvIndex, logValue) ==
  IF lvIndex \in memoIndices /\ logValue \in LogValues
  THEN columnIndexMemo[lvIndex][logValue]
  ELSE computeColumnIndex(lvIndex, logValue)

(***************************************************************************)
(* FilterMap (filtermap.go).  A map is a function from row index to the    *)
(* row's column entries; a nil row is the empty sequence (addValue never   *)
(* leaves an allocated row empty).                                         *)
(***************************************************************************)
Rows == 0..(mapHeight - 1)

\* filtermap.go:13-15
NewFilterMap == [r \in Rows |-> <<>>]

\* addValue taking a row that already holds maxRowLength entries as not full.
RECURSIVE addValueFromInclusive(_, _, _, _, _)
addValueFromInclusive(fm, mapIndex, lvIndex, logValue, layerIndex) ==
  LET rowIdx == rowIndex(mapIndex, layerIndex, logValue)
      maxLen == maxRowLength(layerIndex)
  IN  IF Len(fm[rowIdx]) <= maxLen
      THEN [fm EXCEPT ![rowIdx] = Append(@, columnIndex(lvIndex, logValue))]
      ELSE addValueFromInclusive(fm, mapIndex, lvIndex, logValue, layerIndex + 1)

addValueInclusive(fm, mapIndex, lvIndex, logValue) ==
  addValueFromInclusive(fm, mapIndex, lvIndex, logValue, 0)

\* addValue giving up when the row of layer 0 is full.
addValueLayer0Only(fm, mapIndex, lvIndex, logValue) ==
  LET rowIdx == rowIndex(mapIndex, 0, logValue)
  IN  IF Len(fm[rowIdx]) < maxRowLength(0)
      THEN [fm EXCEPT ![rowIdx] = Append(@, columnIndex(lvIndex, logValue))]
      ELSE fm

\* addValue never trying the row of layer 0.
RECURSIVE addValueFromLayer1(_, _, _, _, _)
addValueFromLayer1(fm, mapIndex, lvIndex, logValue, layerIndex) ==
  LET rowIdx == rowIndex(mapIndex, layerIndex, logValue)
      maxLen == maxRowLength(layerIndex)
  IN  IF layerIndex > 0 /\ Len(fm[rowIdx]) < maxLen
      THEN [fm EXCEPT ![rowIdx] = Append(@, columnIndex(lvIndex, logValue))]
      ELSE addValueFromLayer1(fm, mapIndex, lvIndex, logValue, layerIndex + 1)

addValueSkipLayer0(fm, mapIndex, lvIndex, logValue) ==
  addValueFromLayer1(fm, mapIndex, lvIndex, logValue, 0)

\* filtermap.go:27-43
RECURSIVE addValueFrom(_, _, _, _, _)
addValueFrom(fm, mapIndex, lvIndex, logValue, layerIndex) ==
  LET rowIdx == rowIndex(mapIndex, layerIndex, logValue)
      maxLen == maxRowLength(layerIndex)
  IN  IF Len(fm[rowIdx]) < maxLen
      THEN [fm EXCEPT ![rowIdx] = Append(@, columnIndex(lvIndex, logValue))]
      ELSE addValueFrom(fm, mapIndex, lvIndex, logValue, layerIndex + 1)

addValue(fm, mapIndex, lvIndex, logValue) ==
  addValueFrom(fm, mapIndex, lvIndex, logValue, 0)

RECURSIVE addTopics(_, _, _, _, _)
addTopics(fm, mapIndex, lvIndex, topics, i) ==
  IF i > Len(topics) THEN fm
  ELSE With(addValue(fm, mapIndex, lvIndex, topicValue(topics[i])),
            LAMBDA next : addTopics(next, mapIndex, lvIndex, topics, i + 1))

\* filtermap.go:17-25
AddLogToMap(fm, mapIndex, lvIndex, address, topics) ==
  With(addValue(fm, mapIndex, lvIndex, addressValue(address)),
       LAMBDA next : addTopics(next, mapIndex, lvIndex, topics, 1))

\* The values of a log in the order AddLogToMap adds them.
valuesInOrder(log) ==
  <<addressValue(log.Address)>>
    \o [i \in 1..Len(log.Topics) |-> topicValue(log.Topics[i])]

(***************************************************************************)
(* The backing arrays of the rows.  A row is a slice: addValue makes its   *)
(* array when it first appends to the row, with the capacity of the layer  *)
(* it is at then (filtermap.go:33-36); a later append, at whatever layer,  *)
(* that finds the array full has the runtime allocate a longer one, copy   *)
(* the entries and put the new array into the row (39).  The arrays a row  *)
(* has had are kept as the list of their capacities.                       *)
(***************************************************************************)
noArrays == [r \in Rows |-> <<>>]

\* The capacity append gives the array that replaces a full one of uint32
\* entries: twice the old one, as long as that is below 256 entries.
grownCapacity(capacity) == capacity + capacity

\* filtermap.go:30-41: the layer addValue appends at.
RECURSIVE layerOfValueFrom(_, _, _, _)
layerOfValueFrom(fm, mapIndex, logValue, layerIndex) ==
  IF Len(fm[rowIndex(mapIndex, layerIndex, logValue)])
       < maxRowLength(layerIndex)
  THEN layerIndex
  ELSE layerOfValueFrom(fm, mapIndex, logValue, layerIndex + 1)

\* filtermap.go:33-39: the arrays after addValue has appended the value to
\* the map fm.
arraysAfterValue(fm, arrays, mapIndex, logValue) ==
  With(layerOfValueFrom(fm, mapIndex, logValue, 0),
       LAMBDA layerIndex :
         LET rowIdx == rowIndex(mapIndex, layerIndex, logValue)
             last == arrays[rowIdx][Len(arrays[rowIdx])]
         IN  [arrays EXCEPT
                ![rowIdx] =
                   IF Len(fm[rowIdx]) = 0 THEN <<maxRowLength(layerIndex)>>
                   ELSE IF Len(fm[rowIdx]) = last
                   THEN Append(@, grownCapacity(last))
                   ELSE @])

\* <<the map, the arrays of its rows>> after values[i..] have been added
\* at lvIndex (filtermap.go:17-24).
RECURSIVE arraysOfValues(_, _, _, _, _)
arraysOfValues(st, mapIndex, lvIndex, values, i) ==
  IF i > Len(values) THEN st
  ELSE With(<<addValue(st[1], mapIndex, lvIndex, values[i]),
              arraysAfterValue(st[1], st[2], mapIndex, values[i])>>,
            LAMBDA next :
              arraysOfValues(next, mapIndex, lvIndex, values, i + 1))

\* The same after the logs logs[k..] of the map have been added
\* (indexer.go:119-122).
RECURSIVE arraysOfLogs(_, _, _, _)
arraysOfLogs(st, mapIndex, logs, k) ==
  IF k > Len(logs) THEN st
  ELSE With(arraysOfValues(st, mapIndex,
                           Shl(mapIndex, logValuesPerMap) + k - 1,
                           valuesInOrder(logs[k]), 1),
            LAMBDA next : arraysOfLogs(next, mapIndex, logs, k + 1))

(***************************************************************************)
(* The KV store and the encodings written to it.                           *)
(***************************************************************************)
\* The eight bytes read with the low byte first.
LittleEndianToUint64(bz) == bz[1] + bz[2] * 256

\* sdk.Uint64ToBigEndian / sdk.BigEndianToUint64 of a value below 2^16.
Uint64ToBigEndian(x) == <<0, 0, 0, 0, 0, 0, (x \div 256) % 256, x % 256>>
BigEndianToUint64(bz) == bz[7] * 256 + bz[8]

\* encoding/json of a FilterMap: an array of rows, each an array of numbers,
\* a nil row is null.
marshalFilterMap(fm) ==
  [i \in 1..mapHeight |->
     IF fm[i - 1] = <<>> THEN [null |-> TRUE, numbers |-> <<>>]
     ELSE [null |-> FALSE, numbers |-> fm[i - 1]]]
unmarshalFilterMap(data) ==
  [r \in Rows |-> IF data[r + 1].null THEN <<>> ELSE data[r + 1].numbers]

\* encoding/json of a LogData: its four fields in order.
marshalLogData(ld) == <<ld.MapID, ld.StartBlock, ld.EndBlock, ld.Logs>>
unmarshalLogData(data) ==
  [MapID |-> data[1], StartBlock |-> data[2], EndBlock |-> data[3],
   Logs |-> data[4]]

filterMapKey(mapID) == <<KeyPrefixFilterMap>> \o Uint64ToBigEndian(mapID)
logDataKey(mapID) == <<KeyPrefixLogData>> \o Uint64ToBigEndian(mapID)
blockLvPointerKey(blockNumber) ==
  <<KeyPrefixBlockLvPointer>> \o Uint64ToBigEndian(blockNumber)

\* dbm.DB Set and Get; a missing key reads as the empty byte string.
dbSet(store, key, value) == (key :> value) @@ store
dbHas(store, key) == key \in DOMAIN store
dbGet(store, key) == IF key \in DOMAIN store THEN store[key] ELSE <<>>

\* lru.Cache Add, Get.  Within the bounds of the model a cache never holds
\* as many entries as its capacity (MaxCachedFilterMaps, LvPointerCacheSize),
\* so Add never evicts and the recency order, which only decides evictions,
\* is not tracked.
lruAdd(cache, key, value) == (key :> value) @@ cache
lruHas(cache, key) == key \in DOMAIN cache

(***************************************************************************)
(* State of the FilterMapsIndexer (indexer.go:31-52) and of its store.     *)
(***************************************************************************)
VARIABLES
  db,              \* the KV store: key bytes -> value
  latestBlock,
  nextMapID,
  totalLogIndex,
  filterMapCache,
  logDataCache,
  lvPointerCache,
  currentMap,      \* a FilterMap, or Nil
  currentLogData,  \* a LogData, or Nil
  logCounter,
  ingested,        \* history: the (blockNumber, logs) of every IndexLogs call
  query,           \* the query the caller has just run, or Nil
  result,          \* what that query returned
  restarts,        \* how many times an indexer was created over db again
  replay,          \* the pending query run again by the new indexer
  run,             \* the matcher at work: its coordinator and its workers
  enabled,         \* the field enabled of the indexer
  refused,         \* history: the IndexLogs calls made while not enabled
  faults,          \* the keys on which Get and Set of the KV store fail
  mu,              \* the RWMutex of the indexer: who holds it
  writers,         \* the goroutines calling IndexLogs step by step
  lookups,         \* the goroutines calling getBlockLvPointer step by step
  calc             \* the last call of a function of Params or FilterMap

indexerVars == <<latestBlock, nextMapID, totalLogIndex, filterMapCache,
                 logDataCache, lvPointerCache, currentMap, currentLogData,
                 logCounter>>
restartVars == <<restarts, replay>>
envVars == <<enabled, refused, faults>>
threadVars == <<mu, writers, lookups, calc>>
vars == <<db, indexerVars, ingested, query, result, restartVars, run,
          envVars, threadVars>>

\* No query is waiting to be run again.
noReplay == [reopened |-> FALSE, done |-> FALSE, result |-> <<>>, calls |-> 0]

\* No matcher is at work.
noRun == [pc |-> "idle"]

\* matcher.go:196: log.BlockNumber of a nil log.  The panic of a goroutine
\* ends the process.
panicked == [run EXCEPT !.pc = "panicked"]
running == run.pc # "panicked"

\* Every Get and Set of the KV store succeeds.
noFaults == [get |-> {}, set |-> {}]

\* dbm.DB Set and Get on a store that fails on the keys of faults.  A Set
\* that fails writes nothing; a Get that fails returns an error, which every
\* caller treats as it treats a missing value (err != nil || len(data) == 0),
\* so it reads as the empty byte string.
dbWrite(store, key, value) ==
  IF key \in faults.set THEN store ELSE dbSet(store, key, value)
dbRead(store, key) ==
  IF key \in faults.get THEN <<>> ELSE dbGet(store, key)

\* sync.RWMutex, unlocked: no writer (0) and no readers hold it.
unlocked == [writer |-> 0, readers |-> 0]

\* sync.RWMutex: Lock takes the mutex although it is held.
lockNeverWaits(m) == TRUE

\* sync.RWMutex: Lock can proceed when no writer and no reader holds it.
canLock(m) == m.writer = 0 /\ m.readers = 0

\* sync.RWMutex: RLock can proceed when no writer holds it.
canRLock(m) == m.writer = 0

\* The goroutines that call IndexLogs.
WriterIds == 1..NumWriters

noCall == [blockNumber |-> 0, logs |-> <<>>, k |-> 0, j |-> 0,
           blockFirstIndex |-> 0, assigned |-> <<>>]

\* A goroutine that is not inside IndexLogs; calls holds its earlier calls.
idleWriter(calls) == [pc |-> "idle", call |-> noCall, calls |-> calls]

\* No goroutine is inside IndexLogs or getBlockLvPointer.
idleWriters == [t \in WriterIds |-> idleWriter(<<>>)]
noLookups == <<>>

\* No function of Params has been called by itself.
noCalc == [op |-> "none"]

\* indexer.go:54-68
NewFilterMapsIndexer ==
  /\ latestBlock = 0
  /\ nextMapID = 0
  /\ totalLogIndex = 0
  /\ filterMapCache = <<>>
  /\ logDataCache = <<>>
  /\ lvPointerCache = <<>>
  /\ currentMap = Nil
  /\ currentLogData = Nil
  /\ logCounter = 0

Init ==
  /\ db = <<>>
  /\ NewFilterMapsIndexer
  /\ ingested = <<>>
  /\ query = Nil
  /\ result = <<>>
  /\ restarts = 0
  /\ replay = noReplay
  /\ run = noRun
  /\ enabled = TRUE
  /\ refused = <<>>
  /\ faults = noFaults
  /\ mu = unlocked
  /\ writers = idleWriters
  /\ lookups = noLookups
  /\ calc = noCalc

newLogData(mapID, blockNumber) ==
  [MapID |-> mapID, StartBlock |-> blockNumber, EndBlock |-> blockNumber,
   Logs |-> <<>>]

\* persistCurrentMap writing the FilterMap and not the LogData.
persistCurrentMapWithoutLogData(st) ==
  IF st.currentMap = Nil \/ st.currentLogData = Nil THEN st
  ELSE [st EXCEPT
          !.db = dbWrite(@, filterMapKey(st.nextMapID),
                         marshalFilterMap(st.currentMap)),
          !.filterMapCache = lruAdd(@, st.nextMapID, st.currentMap),
          !.logDataCache = lruAdd(@, st.nextMapID, st.currentLogData)]

\* indexer.go:160-175, on the part of the state the loop of IndexLogs changes.
persistCurrentMap(st) ==
  IF st.currentMap = Nil \/ st.currentLogData = Nil THEN st
  ELSE [st EXCEPT
          !.db = dbWrite(dbWrite(@, filterMapKey(st.nextMapID),
                                 marshalFilterMap(st.currentMap)),
                         logDataKey(st.nextMapID),
                         marshalLogData(st.currentLogData)),
          !.filterMapCache = lruAdd(@, st.nextMapID, st.currentMap),
          !.logDataCache = lruAdd(@, st.nextMapID, st.currentLogData)]

\* startNewMap carrying the logs of the sealed map over into the next one.
startNewMapKeepLogs(st, blockNumber) ==
  [persistCurrentMap(st) EXCEPT
     !.nextMapID = @ + 1,
     !.currentMap = NewFilterMap,
     !.currentLogData = [@ EXCEPT !.MapID = st.nextMapID + 1,
                                  !.StartBlock = blockNumber,
                                  !.EndBlock = blockNumber],
     !.logCounter = 0]

\* startNewMap without the increment of nextMapID.
startNewMapSameID(st, blockNumber) ==
  [persistCurrentMap(st) EXCEPT
     !.currentMap = NewFilterMap,
     !.currentLogData = newLogData(st.nextMapID, blockNumber),
     !.logCounter = 0]

\* startNewMap leaving the full map in place when a write of it fails.
startNewMapUnlessWriteFailed(st, blockNumber) ==
  IF \/ filterMapKey(st.nextMapID) \in faults.set
     \/ logDataKey(st.nextMapID) \in faults.set
  THEN st
  ELSE [persistCurrentMap(st) EXCEPT
          !.nextMapID = @ + 1,
          !.currentMap = NewFilterMap,
          !.currentLogData = newLogData(st.nextMapID + 1, blockNumber),
          !.logCounter = 0]

\* indexer.go:102-116: the current map is full, seal it and start the next.
startNewMap(st, blockNumber) ==
  [persistCurrentMap(st) EXCEPT
     !.nextMapID = @ + 1,
     !.currentMap = NewFilterMap,
     !.currentLogData = newLogData(st.nextMapID + 1, blockNumber),
     !.logCounter = 0]

\* indexOneLog sealing a map as soon as its last log is added.
indexOneLogEager(st, blockNumber, log) ==
  With([st EXCEPT
          !.currentMap = AddLogToMap(@, st.nextMapID,
                                     st.nextMapID * LogsPerMap + st.logCounter,
                                     log.Address, log.Topics),
          !.currentLogData = [@ EXCEPT !.Logs = Append(@, log),
                                       !.EndBlock = blockNumber],
          !.logCounter = @ + 1],
       LAMBDA s : IF s.logCounter >= LogsPerMap THEN startNewMap(s, blockNumber)
                  ELSE s)

\* indexer.go:100-129: one iteration of the loop over the logs.
indexOneLog(st, blockNumber, log) ==
  With(IF st.logCounter >= LogsPerMap THEN startNewMap(st, blockNumber)
       ELSE st,
       LAMBDA s :
         LET globalIndex == s.nextMapID * LogsPerMap + s.logCounter
         IN  [s EXCEPT
                !.currentMap = AddLogToMap(@, s.nextMapID, globalIndex,
                                           log.Address, log.Topics),
                !.currentLogData = [@ EXCEPT !.Logs = Append(@, log),
                                             !.EndBlock = blockNumber],
                !.logCounter = @ + 1])

\* indexer.go:100-129: the loop over logs[lo..hi], the range taken in two
\* halves.
RECURSIVE indexLogsFrom(_, _, _, _, _)
indexLogsFrom(st, blockNumber, logs, lo, hi) ==
  IF lo > hi THEN st
  ELSE IF lo = hi THEN indexOneLog(st, blockNumber, logs[lo])
  ELSE With(indexLogsFrom(st, blockNumber, logs, lo, (lo + hi) \div 2),
            LAMBDA mid : indexLogsFrom(mid, blockNumber, logs,
                                       (lo + hi) \div 2 + 1, hi))

indexAllLogs(st, blockNumber, logs) ==
  indexLogsFrom(st, blockNumber, logs, 1, Len(logs))

\* storeBlockLvPointer given the log count after the block's logs.
storeBlockLvPointerAfter(st, blockNumber, lvPointer) ==
  [st EXCEPT
     !.lvPointerCache =
        lruAdd(@, blockNumber, st.nextMapID * LogsPerMap + st.logCounter),
     !.db = dbSet(@, blockLvPointerKey(blockNumber),
                  Uint64ToBigEndian(st.nextMapID * LogsPerMap + st.logCounter))]

\* storeBlockLvPointer keeping the pointer in the cache alone.
storeBlockLvPointerCacheOnly(st, blockNumber, lvPointer) ==
  [st EXCEPT !.lvPointerCache = lruAdd(@, blockNumber, lvPointer)]

\* indexer.go:201-205
storeBlockLvPointer(st, blockNumber, lvPointer) ==
  [st EXCEPT
     !.lvPointerCache = lruAdd(@, blockNumber, lvPointer),
     !.db = dbWrite(@, blockLvPointerKey(blockNumber),
                    Uint64ToBigEndian(lvPointer))]

\* IndexLogs without the early return for a block without logs.
IndexLogsNoEarlyReturn(blockNumber, logs) ==
  /\ canLock(mu)
  /\ LET st == [db |-> db, nextMapID |-> nextMapID,
                filterMapCache |-> filterMapCache,
                logDataCache |-> logDataCache,
                lvPointerCache |-> lvPointerCache,
                currentMap |-> currentMap, currentLogData |-> currentLogData,
                logCounter |-> logCounter]
         init == IF st.currentMap = Nil
                 THEN [st EXCEPT !.currentMap = NewFilterMap,
                                 !.currentLogData =
                                   newLogData(st.nextMapID, blockNumber)]
                 ELSE st
         final == storeBlockLvPointer(indexAllLogs(init, blockNumber, logs),
                                      blockNumber, totalLogIndex)
     IN  /\ db' = final.db
         /\ nextMapID' = final.nextMapID
         /\ filterMapCache' = final.filterMapCache
         /\ logDataCache' = final.logDataCache
         /\ lvPointerCache' = final.lvPointerCache
         /\ currentMap' = final.currentMap
         /\ currentLogData' = final.currentLogData
         /\ logCounter' = final.logCounter
         /\ latestBlock' = blockNumber
         /\ totalLogIndex' = final.nextMapID * LogsPerMap + final.logCounter
  /\ ingested' = Append(ingested, [blockNumber |-> blockNumber, logs |-> logs])
  /\ UNCHANGED <<query, result, restartVars, run, envVars, threadVars>>

\* indexer.go:70-133, the whole call from Lock to Unlock.  A call made while
\* the indexer is not enabled returns at once (74-76), before the deferred
\* call is set up.  Otherwise the deferred storeBlockLvPointer runs last, on
\* both return paths.
IndexLogs(blockNumber, logs) ==
  /\ canLock(mu)
  /\ IF ~enabled
     THEN /\ refused' = Append(refused, [blockNumber |-> blockNumber,
                                          logs |-> logs])
          /\ UNCHANGED <<db, indexerVars, ingested>>
     ELSE /\ LET st == [db |-> db, nextMapID |-> nextMapID,
                        filterMapCache |-> filterMapCache,
                        logDataCache |-> logDataCache,
                        lvPointerCache |-> lvPointerCache,
                        currentMap |-> currentMap,
                        currentLogData |-> currentLogData,
                        logCounter |-> logCounter]
                 blockFirstIndex == totalLogIndex
                 init == IF st.currentMap = Nil
                         THEN [st EXCEPT !.currentMap = NewFilterMap,
                                         !.currentLogData =
                                           newLogData(st.nextMapID, blockNumber)]
                         ELSE st
                 looped == IF Len(logs) = 0 THEN st
                           ELSE indexAllLogs(init, blockNumber, logs)
                 final == storeBlockLvPointer(looped, blockNumber,
                                              blockFirstIndex)
             IN  /\ db' = final.db
                 /\ nextMapID' = final.nextMapID
                 /\ filterMapCache' = final.filterMapCache
                 /\ logDataCache' = final.logDataCache
                 /\ lvPointerCache' = final.lvPointerCache
                 /\ currentMap' = final.currentMap
                 /\ currentLogData' = final.currentLogData
                 /\ logCounter' = final.logCounter
                 /\ latestBlock' = IF Len(logs) = 0 THEN latestBlock
                                   ELSE blockNumber
                 /\ totalLogIndex' =
                      IF Len(logs) = 0 THEN totalLogIndex
                      ELSE final.nextMapID * LogsPerMap + final.logCounter
          /\ ingested' = Append(ingested, [blockNumber |-> blockNumber,
                                            logs |-> logs])
          /\ UNCHANGED refused
  /\ UNCHANGED <<query, result, restartVars, run, enabled, faults, threadVars>>

(***************************************************************************)
(* The matcher (matcher.go) and potentialMatches (filtermap.go).           *)
(***************************************************************************)
\* indexer.go:207-221: <<pointer, found, the pointer cache afterwards>>.
getBlockLvPointer(cache, store, blockNumber) ==
  IF lruHas(cache, blockNumber) THEN <<cache[blockNumber], TRUE, cache>>
  ELSE LET data == dbRead(store, blockLvPointerKey(blockNumber))
       IN  IF Len(data) = 0 THEN <<0, FALSE, cache>>
           ELSE <<BigEndianToUint64(data), TRUE,
                  lruAdd(cache, blockNumber, BigEndianToUint64(data))>>

\* matcher.go:248-277: <<firstIndex, lastIndex, the pointer cache afterwards>>.
getLogIndexRange(firstBlock, lastBlock) ==
  LET last == IF lastBlock > latestBlock THEN latestBlock ELSE lastBlock
      p1 == getBlockLvPointer(lvPointerCache, db, firstBlock)
      firstIndex == IF p1[2] THEN p1[1]
                    ELSE firstBlock * EstimatedLogsPerBlock
      p2 == getBlockLvPointer(p1[3], db, last + 1)
      estimate == (last + 1) * EstimatedLogsPerBlock
      lastIndex == IF p2[2] THEN p2[1]
                   ELSE IF estimate > totalLogIndex THEN totalLogIndex
                   ELSE estimate
  IN  <<firstIndex, IF lastIndex > 0 THEN lastIndex - 1 ELSE lastIndex, p2[3]>>

\* indexer.go:177-187
loadFilterMap(mapID) ==
  LET data == dbRead(db, filterMapKey(mapID))
  IN  IF Len(data) = 0 THEN Nil ELSE unmarshalFilterMap(data)

\* indexer.go:189-199
loadLogData(mapID) ==
  LET data == dbRead(db, logDataKey(mapID))
  IN  IF Len(data) = 0 THEN Nil ELSE unmarshalLogData(data)

\* getFilterMap putting whatever it returns into the cache.
getFilterMapCachingAll(cache, mapIndex) ==
  IF mapIndex = nextMapID /\ currentMap # Nil
  THEN <<currentMap, lruAdd(cache, mapIndex, currentMap), TRUE>>
  ELSE IF lruHas(cache, mapIndex) THEN <<cache[mapIndex], cache, FALSE>>
  ELSE LET fm == dbGet(db, filterMapKey(mapIndex))
       IN  IF Len(fm) = 0 THEN <<Nil, cache, FALSE>>
           ELSE <<unmarshalFilterMap(fm),
                  lruAdd(cache, mapIndex, unmarshalFilterMap(fm)), FALSE>>

\* matcher.go:279-297: <<the map or Nil, the FilterMap cache afterwards,
\* whether what is returned is the map IndexLogs is filling>>.  A FilterMap
\* is a slice of rows: the one returned for the current map shares its rows
\* with the indexer's.
getFilterMap(cache, mapIndex) ==
  IF mapIndex = nextMapID /\ currentMap # Nil THEN <<currentMap, cache, TRUE>>
  ELSE IF lruHas(cache, mapIndex) THEN <<cache[mapIndex], cache, FALSE>>
  ELSE LET fm == loadFilterMap(mapIndex)
       IN  <<fm, IF fm # Nil THEN lruAdd(cache, mapIndex, fm) ELSE cache, FALSE>>

\* matcher.go:299-317: <<the LogData or Nil, the LogData cache afterwards,
\* whether what is returned is the LogData IndexLogs is filling>>.  What is
\* returned is a pointer.
getLogData(cache, mapIndex) ==
  IF mapIndex = nextMapID /\ currentLogData # Nil
  THEN <<currentLogData, cache, TRUE>>
  ELSE IF lruHas(cache, mapIndex) THEN <<cache[mapIndex], cache, FALSE>>
  ELSE LET ld == loadLogData(mapIndex)
       IN  <<ld, IF ld # Nil THEN lruAdd(cache, mapIndex, ld) ELSE cache, FALSE>>

\* matcher.go:208-223: the rows of a value, layer 0 first.
RECURSIVE getRowsForValueFrom(_, _, _, _)
getRowsForValueFrom(fm, mapIndex, logValue, layerIndex) ==
  LET rowIdx == rowIndex(mapIndex, layerIndex, logValue)
  IN  IF rowIdx >= mapHeight \/ fm[rowIdx] = <<>> THEN <<>>
      ELSE IF Len(fm[rowIdx]) < maxRowLength(layerIndex) THEN <<fm[rowIdx]>>
      ELSE <<fm[rowIdx]>>
             \o getRowsForValueFrom(fm, mapIndex, logValue, layerIndex + 1)

getRowsForValue(fm, mapIndex, logValue) ==
  getRowsForValueFrom(fm, mapIndex, logValue, 0)

\* What a goroutine can read of a row it is not ordered with the appends
\* to (filtermap.go:34, 38-39: append writes the array, the length and the
\* entry apart).  low is what the goroutine has found of the row so far,
\* first the row as it was when it last took the mutex.  A read finds that
\* length or any later one.  While the row has the array it had then, or
\* the one it was made with since, a read finds at a position where the
\* goroutine has found the entry, the entry, and at another the entry or
\* the zero the array was made with.  Once an append has replaced the
\* array, the goroutine can find the old array or the new one, the new one
\* before the entries were copied into its memory, which the runtime does
\* not clear, and the old one with the new length, which reads on behind
\* it: what it reads at a position is then any uint32, given as any.  The
\* reads of n entries:
RECURSIVE readsOfRowTo(_, _, _, _)
readsOfRowTo(row, low, n, any) ==
  IF n = 0 THEN {<<>>}
  ELSE {Append(read, entry) :
          read \in readsOfRowTo(row, low, n - 1, any),
          entry \in IF any # {} THEN {row[n]} \cup any
                    ELSE IF n <= Len(low) /\ low[n] # 0 THEN {low[n]}
                    ELSE {row[n], 0}}

\* The reads that find a row of layer maxLen is the length of not full.
readsOfShortRow(row, low, maxLen, any) ==
  UNION {readsOfRowTo(row, low, n, any) :
           n \in Len(low)..(IF Len(row) < maxLen THEN Len(row) ELSE maxLen - 1)}

\* The reads that find it full: potentialMatches reads maxLen entries
\* (filtermap.go:59-62), of the others nothing is found.
readsOfFullRow(row, low, maxLen, any) ==
  {read \o SubSeq(low, maxLen + 1, Len(low)) :
     read \in readsOfRowTo(row, low, maxLen, any)}

\* The columns at which potentialMatches takes an entry for the value
\* (filtermap.go:63-66): those of the value at the positions of the map.
columnsOfValue(mapIndex, logValue) ==
  {columnIndex(Shl(mapIndex, logValuesPerMap) + p, logValue) :
     p \in 0..(valuesPerMap - 1)}

\* Any uint32, as potentialMatches tells them apart for the value: each
\* column of the value, and one number for all that are no column of it.
anyEntry(mapIndex, logValue) ==
  With(columnsOfValue(mapIndex, logValue),
       LAMBDA columns :
         columns \cup {CHOOSE c \in 0..(Pow2(logMapWidth) - 1) :
                         c \notin columns})

\* What a read leaves the goroutine with of a row: the entries, or of a row
\* whose array was replaced the length alone.
foundOfRow(read, replaced) ==
  IF replaced THEN [n \in 1..Len(read) |-> 0] ELSE read

\* matcher.go:208-223 on a map that is appended to meanwhile, with the
\* entries potentialMatches reads of the rows (filtermap.go:58-73): the
\* lists of rows getRowsForValue can return, each with what the goroutine
\* has then found of the rows, and whether a read went on behind the end of
\* an array.  A row of which nothing was found can be found nil (212).
\* old[r] is 0 while no append has replaced the array of row r since the
\* goroutine last took the mutex, and else the capacity of the first array
\* the goroutine can find.
RECURSIVE readsOfRowsForValueFrom(_, _, _, _, _, _)
readsOfRowsForValueFrom(fm, found, old, mapIndex, logValue, layerIndex) ==
  LET rowIdx == rowIndex(mapIndex, layerIndex, logValue)
  IN  IF rowIdx >= mapHeight THEN {<<(<<>>), found, FALSE>>}
      ELSE LET row == fm[rowIdx]
               low == found[rowIdx]
               maxLen == maxRowLength(layerIndex)
               replaced == old[rowIdx] > 0
               any == IF replaced THEN anyEntry(mapIndex, logValue) ELSE {}
           IN  (IF Len(low) = 0 THEN {<<(<<>>), found, FALSE>>} ELSE {})
                 \cup (IF Len(row) > 0 /\ Len(low) < maxLen
                       THEN {<<(<<read>>),
                               [found EXCEPT
                                  ![rowIdx] = foundOfRow(read, replaced)],
                               replaced /\ Len(read) > old[rowIdx]>> :
                               read \in readsOfShortRow(row, low, maxLen, any)}
                       ELSE {})
                 \cup (IF Len(row) >= maxLen
                       THEN UNION {{<<(<<read>>) \o rest[1], rest[2],
                                      rest[3]
                                        \/ (replaced /\ maxLen > old[rowIdx])>> :
                                      rest \in readsOfRowsForValueFrom(
                                                 fm,
                                                 [found EXCEPT
                                                    ![rowIdx] =
                                                       foundOfRow(read,
                                                                  replaced)],
                                                 old, mapIndex, logValue,
                                                 layerIndex + 1)} :
                                     read \in readsOfFullRow(row, low, maxLen,
                                                             any)}
                       ELSE {})

readsOfRowsForValue(fm, found, old, mapIndex, logValue) ==
  readsOfRowsForValueFrom(fm, found, old, mapIndex, logValue, 0)

\* slices.Sort followed by the removal of duplicates (filtermap.go:76-86).
RECURSIVE ascending(_)
ascending(set) ==
  IF set = {} THEN <<>>
  ELSE With(CHOOSE x \in set : \A y \in set : x <= y,
            LAMBDA least :
              With(set \ {least}, LAMBDA rest : <<least>> \o ascending(rest)))

\* The results left as the scan appended them.
keepAsScanned(results) == results

sortAndDedup(results) ==
  With({results[k] : k \in 1..Len(results)}, LAMBDA set : ascending(set))

\* filtermap.go:60-68: the entries row[j..rowLen] that re-derive to themselves.
RECURSIVE rowMatches(_, _, _, _, _)
rowMatches(row, j, rowLen, mapFirst, logValue) ==
  IF j > rowLen THEN <<>>
  ELSE LET potentialMatch ==
             mapFirst + Shr(row[j], logMapWidth - logValuesPerMap)
       IN  (IF row[j] = columnIndex(potentialMatch, logValue)
            THEN <<potentialMatch>> ELSE <<>>)
             \o rowMatches(row, j + 1, rowLen, mapFirst, logValue)

\* scanRows reading no more than maxRowLength(0) entries of any row.
RECURSIVE scanRowsBaseLength(_, _, _, _)
scanRowsBaseLength(rows, i, mapFirst, logValue) ==
  IF i > Len(rows) THEN <<>>
  ELSE LET maxLen == maxRowLength(i - 1)
           rowLen == Min(Len(rows[i]), maxRowLength(0))
           found == rowMatches(rows[i], 1, rowLen, mapFirst, logValue)
       IN  IF Len(rows[i]) < maxLen THEN found
           ELSE found \o scanRowsBaseLength(rows, i + 1, mapFirst, logValue)

\* filtermap.go:58-73: the loop over the rows, rows[i] taken as layer i - 1.
RECURSIVE scanRows(_, _, _, _)
scanRows(rows, i, mapFirst, logValue) ==
  IF i > Len(rows) THEN <<>>
  ELSE LET maxLen == maxRowLength(i - 1)
           rowLen == Min(Len(rows[i]), maxLen)
           found == rowMatches(rows[i], 1, rowLen, mapFirst, logValue)
       IN  IF rowLen < maxLen THEN found
           ELSE found \o scanRows(rows, i + 1, mapFirst, logValue)

\* filtermap.go:54-87
potentialMatches(rows, mapIndex, logValue) ==
  With(rows,
       LAMBDA rs : With(scanRows(rs, 1, Shl(mapIndex, logValuesPerMap), logValue),
                        LAMBDA results : sortAndDedup(results)))

Range(seq) == {seq[k] : k \in 1..Len(seq)}

\* verifyLog accepting a wanted topic at any position of the log.
verifyLogAnyPosition(q, log) ==
  /\ Len(q.addresses) > 0 => log.Address \in Range(q.addresses)
  /\ \A i \in 1..Len(q.topics) :
        Len(q.topics[i]) = 0
        \/ \E k \in 1..Len(log.Topics) : log.Topics[k] \in Range(q.topics[i])

\* verifyLog asking for a topic at every position of the filter, also where
\* the filter's list is empty.
verifyLogWildcardNeedsTopic(q, log) ==
  /\ Len(q.addresses) > 0 => log.Address \in Range(q.addresses)
  /\ \A i \in 1..Len(q.topics) :
        /\ i <= Len(log.Topics)
        /\ Len(q.topics[i]) = 0 \/ log.Topics[i] \in Range(q.topics[i])

\* matcher.go:225-246
verifyLog(q, log) ==
  /\ Len(q.addresses) > 0 => log.Address \in Range(q.addresses)
  /\ \A i \in 1..Len(q.topics) :
        Len(q.topics[i]) = 0
        \/ (i <= Len(log.Topics) /\ log.Topics[i] \in Range(q.topics[i]))

\* matcher.go:165-183: the candidates narrowed by one topic position after
\* the other.
RECURSIVE narrowByTopics(_, _, _, _, _)
narrowByTopics(matches, fm, mapIndex, topics, i) ==
  IF i > Len(topics) THEN matches
  ELSE IF Len(topics[i]) = 0
       THEN narrowByTopics(matches, fm, mapIndex, topics, i + 1)
  ELSE LET potentials ==
             UNION {Range(potentialMatches(
                      getRowsForValue(fm, mapIndex, topicValue(t)),
                      mapIndex, topicValue(t))) : t \in Range(topics[i])}
           topicMatches == matches \cap potentials
       IN  With(topicMatches,
                LAMBDA next : narrowByTopics(next, fm, mapIndex, topics, i + 1))

\* keepMatch without the comparison of log.BlockNumber with the block range.
keepMatchNoBlockCheck(q, logData, mapFirst, matchIdx) ==
  /\ matchIdx - mapFirst < Len(logData.Logs)
  /\ verifyLog(q, logData.Logs[matchIdx - mapFirst + 1])

\* matcher.go:189-200: one iteration of the loop over the matches keeps the
\* log of the candidate.
keepMatch(q, logData, mapFirst, matchIdx) ==
  /\ matchIdx - mapFirst < Len(logData.Logs)
  /\ LET log == logData.Logs[matchIdx - mapFirst + 1]
     IN  /\ log.BlockNumber >= q.firstBlock
         /\ log.BlockNumber <= q.lastBlock
         /\ verifyLog(q, log)

\* matcher.go:147-205 run on a map and a LogData that are not written
\* meanwhile: the logs returned, each with the index it was matched at (the
\* loop over the Go map of matches visits them in no particular order).
matchMap(q, fm, logData, mapIndex) ==
  LET mapFirst == Shl(mapIndex, logValuesPerMap)
      initial ==
        IF Len(q.addresses) > 0
        THEN UNION {Range(potentialMatches(
                       getRowsForValue(fm, mapIndex, addressValue(a)),
                       mapIndex, addressValue(a))) : a \in Range(q.addresses)}
        ELSE {mapFirst + i : i \in 0..(Len(logData.Logs) - 1)}
      matches ==
        With(initial,
             LAMBDA first : narrowByTopics(first, fm, mapIndex, q.topics, 1))
      kept == {matchIdx \in matches : keepMatch(q, logData, mapFirst, matchIdx)}
  IN  {[lvIndex |-> matchIdx, log |-> logData.Logs[matchIdx - mapFirst + 1]] :
         matchIdx \in kept}

\* matcher.go:136-206 run with no IndexLogs call in between: <<the logs
\* matched in the map, the FilterMap and the LogData cache afterwards>>.
processMap(q, caches, mapIndex) ==
  With(getFilterMap(caches[1], mapIndex),
       LAMBDA f :
         IF f[1] = Nil THEN <<{}, f[2], caches[2]>>
         ELSE With(getLogData(caches[2], mapIndex),
                   LAMBDA l :
                     IF l[1] = Nil THEN <<{}, f[2], l[2]>>
                     ELSE <<matchMap(q, f[1], l[1], mapIndex), f[2], l[2]>>))

\* matcher.go:117-134 and 83-114: the maps of the epochs firstEpoch..lastEpoch
\* clamped to firstMap..lastMap are the maps firstMap..lastMap in order, and
\* the coordinator appends the epochs' results in epoch order.  The result is
\* the sequence of the per-map match sets.
RECURSIVE processMaps(_, _, _, _, _)
processMaps(q, caches, mapIndex, lastMap, acc) ==
  IF mapIndex > lastMap THEN <<acc, caches[1], caches[2]>>
  ELSE With(processMap(q, caches, mapIndex),
            LAMBDA r :
              With(Append(acc, r[1]),
                   LAMBDA all : processMaps(q, <<r[2], r[3]>>, mapIndex + 1,
                                            lastMap, all)))

\* matcher.go:13-39 run with no IndexLogs call in between: <<result, pointer
\* cache, FilterMap cache, LogData cache>>.
FindLogsByRange(q) ==
  With(getLogIndexRange(q.firstBlock, q.lastBlock),
       LAMBDA range :
         IF range[1] > range[2]
         THEN <<<<>>, range[3], filterMapCache, logDataCache>>
         ELSE With(processMaps(q, <<filterMapCache, logDataCache>>,
                               Shr(range[1], logValuesPerMap),
                               Shr(range[2], logValuesPerMap), <<>>),
                   LAMBDA done : <<done[1], range[3], done[2], done[3]>>))

(***************************************************************************)
(* Inputs of IndexLogs: a block number and a batch of logs whose           *)
(* BlockNumber is that block.  IndexLogs takes the block number as it      *)
(* comes (indexer.go:70): it is compared neither with latestBlock nor with *)
(* the blocks ingested before.  Where ingestion is looked at alone, the    *)
(* blocks are handed over in any order, each once, with or without gaps;   *)
(* where queries run beside it, the ingesting goroutine hands them over in *)
(* ascending order, as the tests do.                                       *)
(***************************************************************************)
RECURSIVE Pow(_, _)
Pow(b, n) == IF n = 0 THEN 1 ELSE b * Pow(b, n - 1)

RECURSIVE topicListOfLen(_, _)
topicListOfLen(len, code) ==
  IF len = 0 THEN <<>>
  ELSE <<1 + (code % NumTopics)>> \o topicListOfLen(len - 1, code \div NumTopics)

\* The j-th topic list, counting by length and then by content.
RECURSIVE topicListAt(_, _)
topicListAt(j, len) ==
  IF j < Pow(NumTopics, len) THEN topicListOfLen(len, j)
  ELSE topicListAt(j - Pow(NumTopics, len), len + 1)

RECURSIVE numTopicListsUpTo(_)
numTopicListsUpTo(len) ==
  Pow(NumTopics, len) + (IF len = 0 THEN 0 ELSE numTopicListsUpTo(len - 1))

NumShapes == NumAddresses * numTopicListsUpTo(MaxTopics)

\* The s-th (address, topics) pair a log can carry.
logShape(s, blockNumber) ==
  [Address |-> 1 + (s % NumAddresses),
   Topics |-> topicListAt(s \div NumAddresses, 0),
   BlockNumber |-> blockNumber]

\* A batch of n logs for a block: shapes seed, seed + 3, seed + 6, ...
logBatch(seed, n, blockNumber) ==
  [k \in 1..n |-> logShape((seed + 3 * (k - 1)) % NumShapes, blockNumber)]

\* The block a caller that goes through the blocks in ascending order hands
\* over next.
nextBlock == Len(ingested) + Len(refused) + 1

\* The blocks no call has been made for yet.
blocksToIngest ==
  (1..MaxBlocks) \ ({ingested[k].blockNumber : k \in 1..Len(ingested)}
                      \cup {refused[k].blockNumber : k \in 1..Len(refused)})

\* A call of IndexLogs for any block not handed over before: a later block
\* can come before an earlier one.
Ingest ==
  \E blockNumber \in blocksToIngest, n \in 0..MaxLogsPerCall,
     seed \in 0..(NumSeeds - 1) :
    /\ n = 0 => seed = 0
    /\ IndexLogs(blockNumber, logBatch(seed, n, blockNumber))

\* A first call with many logs, for any block.
IngestBulk ==
  /\ Len(ingested) + Len(refused) = 0
  /\ \E blockNumber \in blocksToIngest :
        IndexLogs(blockNumber,
                  logBatch(0, MaxBulkLogsPerCall, blockNumber))

(***************************************************************************)
(* IndexLogs step by step (indexer.go:70-133).  Each caller is a           *)
(* goroutine; a call is the Lock of the indexer's mutex with the           *)
(* statements up to the loop, the steps of the loop over the logs, and the *)
(* statements after the loop with the deferred storeBlockLvPointer and     *)
(* Unlock.  The history ingested is kept in the order the calls got the    *)
(* mutex.  While a call holds the mutex the goroutines of a query go on    *)
(* with what they do without the mutex: the statements of processMap after *)
(* getLogData, which read the rows of the map being filled and its list of *)
(* logs.  An iteration of the loop is therefore not one step.  It seals    *)
(* the full map and starts the next (102-116), which no goroutine without  *)
(* the mutex can see; it appends to a row once for the address and once    *)
(* for every topic (AddLogToMap, filtermap.go:17-24, each append in        *)
(* addValue, 27-43); and it appends the log to the list (124-128).  Each   *)
(* of the appends is a step of its own, and a read of processMap can fall  *)
(* between any two of them.  The reads are not ordered with the appends    *)
(* made since the goroutine last took the mutex: of a row or of the list   *)
(* appended to since, a read finds the length at that time or any later    *)
(* one, and at a position appended since, the entry or the zero value the  *)
(* backing array was made with (filtermap.go:34, indexer.go:92, 111).  The *)
(* list is made with room for the logs of a whole map and keeps its array; *)
(* a row is made with the room of the layer it is first appended at, and   *)
(* an append at a higher layer replaces its array (filtermap.go:39): of    *)
(* such a row a read finds any uint32 at any position.                     *)
(***************************************************************************)
\* The calls begun so far, inside IndexLogs or through it.
callsBegun ==
  Len(ingested) + Len(refused)
    + Cardinality({t \in WriterIds : writers[t].pc = "lock"})

\* The part of the indexer the loop of IndexLogs works on, and its update.
loopState ==
  [db |-> db, nextMapID |-> nextMapID, filterMapCache |-> filterMapCache,
   logDataCache |-> logDataCache, lvPointerCache |-> lvPointerCache,
   currentMap |-> currentMap, currentLogData |-> currentLogData,
   logCounter |-> logCounter]

setLoopState(st) ==
  /\ db' = st.db
  /\ nextMapID' = st.nextMapID
  /\ filterMapCache' = st.filterMapCache
  /\ logDataCache' = st.logDataCache
  /\ lvPointerCache' = st.lvPointerCache
  /\ currentMap' = st.currentMap
  /\ currentLogData' = st.currentLogData
  /\ logCounter' = st.logCounter

writerUnchanged ==
  UNCHANGED <<query, result, restartVars, run, enabled, faults, lookups,
              calc>>

\* A goroutine calls IndexLogs with the next block and waits for the mutex.
CallIndexLogs(t) ==
  /\ writers[t].pc = "idle"
  /\ callsBegun < MaxWriterBlocks
  /\ \E n \in {0, MaxSparseLogsPerCall, MaxLogsPerCall} :
        writers' =
          [writers EXCEPT
             ![t] = [@ EXCEPT
                       !.pc = "lock",
                       !.call = [noCall EXCEPT
                                   !.blockNumber = callsBegun + 1,
                                   !.logs = logBatch((callsBegun + 1) % NumSeeds,
                                                     n, callsBegun + 1)]]]
  /\ UNCHANGED <<db, indexerVars, ingested, refused, mu>>
  /\ writerUnchanged

\* indexer.go:71-97: the mutex is taken; a call with logs sets up the
\* current map if there is none and enters the loop.
lockAndBegin(t, blockNumber, logs) ==
  /\ running
  /\ canLock(mu)
  /\ IF ~enabled
     THEN /\ refused' = Append(refused,
                               [blockNumber |-> blockNumber, logs |-> logs])
          /\ writers' = [writers EXCEPT ![t] = idleWriter(@.calls)]
          /\ UNCHANGED <<db, indexerVars, ingested, mu>>
     ELSE /\ mu' = [mu EXCEPT !.writer = t]
          /\ ingested' = Append(ingested,
                                [blockNumber |-> blockNumber, logs |-> logs])
          /\ writers' =
               [writers EXCEPT
                  ![t] = [@ EXCEPT
                            !.pc = IF Len(logs) = 0 THEN "return" ELSE "loop",
                            !.call = [noCall EXCEPT
                                        !.blockNumber = blockNumber,
                                        !.logs = logs,
                                        !.k = 1,
                                        !.blockFirstIndex = totalLogIndex]]]
          /\ IF Len(logs) > 0 /\ currentMap = Nil
             THEN /\ currentMap' = NewFilterMap
                  /\ currentLogData' = newLogData(nextMapID, blockNumber)
             ELSE UNCHANGED <<currentMap, currentLogData>>
          /\ UNCHANGED <<db, latestBlock, nextMapID, totalLogIndex,
                         filterMapCache, logDataCache, lvPointerCache,
                         logCounter, refused>>
  /\ writerUnchanged

\* The call a goroutine is waiting with gets the mutex.
LockAndBegin(t) ==
  /\ writers[t].pc = "lock"
  /\ lockAndBegin(t, writers[t].call.blockNumber, writers[t].call.logs)

\* The IndexLogs calls that have got the mutex since the query at hand was
\* begun, with the one to be begun.
overlapping == IF run.pc = "idle" THEN 0 ELSE Len(ingested) - run.calls + 1

\* The goroutine that ingests the blocks while queries are made.
Ingester == 1

\* The ingesting goroutine calls IndexLogs and gets the mutex.  While a query
\* is in flight or its result is with the caller, no more than
\* MaxOverlapCalls calls are begun.
BeginIndexLogs(blockNumber, logs) ==
  /\ writers[Ingester].pc = "idle"
  /\ overlapping <= MaxOverlapCalls
  /\ lockAndBegin(Ingester, blockNumber, logs)

\* The log the loop of the call is at, and the value of it that is added
\* next: the address first, then the topics in their order
\* (filtermap.go:17-24).
logAtHand(t) == writers[t].call.logs[writers[t].call.k]
valueAtHand(t) ==
  IF writers[t].call.j = 0 THEN addressValue(logAtHand(t).Address)
  ELSE topicValue(logAtHand(t).Topics[writers[t].call.j])

\* indexer.go:102-116: at the head of an iteration the current map is full;
\* it is sealed and the next one started.
SealFullMap(t) ==
  /\ running
  /\ writers[t].pc = "loop"
  /\ writers[t].call.j = 0
  /\ logCounter >= LogsPerMap
  /\ setLoopState(startNewMap(loopState, writers[t].call.blockNumber))
  /\ UNCHANGED <<latestBlock, totalLogIndex, ingested, refused, mu, writers>>
  /\ writerUnchanged

\* indexer.go:119-122 with filtermap.go:17-24: one call of addValue
\* (27-43), which appends the column of the log to one row of the current
\* map.
AddLogValue(t) ==
  /\ running
  /\ writers[t].pc = "loop"
  /\ writers[t].call.j <= Len(logAtHand(t).Topics)
  /\ writers[t].call.j > 0 \/ logCounter < LogsPerMap
  /\ currentMap' = addValue(currentMap, nextMapID,
                            nextMapID * LogsPerMap + logCounter,
                            valueAtHand(t))
  /\ writers' = [writers EXCEPT ![t].call.j = @ + 1]
  /\ UNCHANGED <<db, latestBlock, nextMapID, totalLogIndex, filterMapCache,
                 logDataCache, lvPointerCache, currentLogData, logCounter,
                 ingested, refused, mu>>
  /\ writerUnchanged

\* indexer.go:124-128: the log is appended to the list of the current map,
\* EndBlock set and logCounter incremented; the loop goes on to the next
\* log.
AppendLog(t) ==
  /\ running
  /\ writers[t].pc = "loop"
  /\ writers[t].call.j = Len(logAtHand(t).Topics) + 1
  /\ currentLogData' = [currentLogData EXCEPT
                          !.Logs = Append(@, logAtHand(t)),
                          !.EndBlock = writers[t].call.blockNumber]
  /\ logCounter' = logCounter + 1
  /\ writers' =
       [writers EXCEPT
          ![t] = [@ EXCEPT
                    !.pc = IF writers[t].call.k = Len(writers[t].call.logs)
                           THEN "return"
                           ELSE "loop",
                    !.call = [@ EXCEPT
                                !.k = @ + 1,
                                !.j = 0,
                                !.assigned =
                                   Append(@, nextMapID * LogsPerMap
                                               + logCounter)]]]
  /\ UNCHANGED <<db, latestBlock, nextMapID, totalLogIndex, filterMapCache,
                 logDataCache, lvPointerCache, currentMap, ingested, refused,
                 mu>>
  /\ writerUnchanged

\* indexer.go:100-129: a step of the loop over the logs.
LoopStep(t) == SealFullMap(t) \/ AddLogValue(t) \/ AppendLog(t)

\* indexer.go:131-132 after the loop, then the deferred calls: the pointer
\* is stored (80-82) and the mutex released (72).
FinishAndUnlock(t) ==
  /\ running
  /\ writers[t].pc = "return"
  /\ setLoopState(storeBlockLvPointer(loopState, writers[t].call.blockNumber,
                                      writers[t].call.blockFirstIndex))
  /\ IF Len(writers[t].call.logs) = 0
     THEN UNCHANGED <<latestBlock, totalLogIndex>>
     ELSE /\ latestBlock' = writers[t].call.blockNumber
          /\ totalLogIndex' = nextMapID * LogsPerMap + logCounter
  /\ mu' = [mu EXCEPT !.writer = 0]
  /\ writers' = [writers EXCEPT ![t] = idleWriter(Append(@.calls, @.call))]
  /\ UNCHANGED <<ingested, refused>>
  /\ writerUnchanged

\* The steps of the ingesting goroutine inside a call.
IngesterLoops == LoopStep(Ingester)
IngesterReturns == FinishAndUnlock(Ingester)

(***************************************************************************)
(* Inputs of FindLogsByRange.                                              *)
(***************************************************************************)
QueryBlocks == 1..(MaxBlocks + 1)

\* The duplicate-free ascending lists over a set.
listsOver(set) == {ascending(sub) : sub \in SUBSET set}

RECURSIVE topicFilters(_)
topicFilters(len) ==
  IF len = 0 THEN {<<>>}
  ELSE topicFilters(len - 1)
         \cup {Append(f, l) : f \in {g \in topicFilters(len - 1) : Len(g) = len - 1},
                               l \in listsOver(Topics)}

newQuery(firstBlock, lastBlock, addresses, topics) ==
  [firstBlock |-> firstBlock, lastBlock |-> lastBlock,
   addresses |-> addresses, topics |-> topics]

(***************************************************************************)
(* FindLogsByRange step by step (matcher.go:13-206).  The coordinator is   *)
(* the goroutine running process(); the workers are the goroutines it      *)
(* spawns.  A send on the unbuffered taskCh is one step of the coordinator *)
(* and the receiving worker together.  When several cases of the select    *)
(* can proceed, any of them may be taken.  The workers run the same code,  *)
(* so they are kept as the number of workers at the receive, the epochs    *)
(* being processed, each with what its worker has at hand, and the number  *)
(* of workers that have called wg.Done().                                  *)
(* A worker takes the maps of its epoch one after the other, and for each  *)
(* the read lock twice, releasing it on return: in getFilterMap and in     *)
(* getLogData.  What processMap does then (147-205) it does with no lock   *)
(* held.  If the LogData is the one IndexLogs is filling, there is one     *)
(* step for every wanted address and topic, whose rows are read and        *)
(* scanned, one for the count of the logs when no address is wanted, and   *)
(* one for every iteration of the loop over the matches.  The map the      *)
(* worker has with it is the one getFilterMap returned (137-142): the map  *)
(* IndexLogs is filling or, on an indexer made over a store that holds a   *)
(* map of that index, the map loaded from the store, which no goroutine    *)
(* writes.  The reads of these steps are not ordered with the appends of   *)
(* an IndexLogs call that got the mutex after the worker's getLogData, but *)
(* a read of a length, or of an entry in an array that was not replaced,   *)
(* finds nothing older than an earlier read of the same by the worker did; *)
(* the read of a log that is nil makes the worker panic, and so can a read *)
(* behind the end of an array, which ends the process.  If the LogData is  *)
(* of a sealed map, got from the cache or the store, the map is sealed as  *)
(* well and no goroutine writes them any more; what 147-205 does with them *)
(* is told by the objects alone and taken with the step of getLogData.     *)
(* An IndexLogs call of another goroutine can take its steps between any   *)
(* two steps of a worker, so also between the two read-locked sections of  *)
(* a map, whether the map is sealed or being filled.  When processEpoch    *)
(* has returned, the worker stores the list in the task and closes its     *)
(* done channel, which is a step of its own.                               *)
(***************************************************************************)
NumWorkers == 4

newTask(epochIndex) == [epochIndex |-> epochIndex, logs |-> <<>>, done |-> FALSE]

\* One worker more than the four of the loop.
spawnedOneMore == [receiving |-> NumWorkers + 1, processing |-> {}, exited |-> 0]

\* matcher.go:78-81
spawned == [receiving |-> NumWorkers, processing |-> {}, exited |-> 0]

\* matcher.go:25-37, 60-89: the matcher, its workers spawned, the first task
\* made.  again tells a query the caller makes a second time, calls is the
\* number of IndexLogs calls that had got the mutex when the query began.
newMatcher(q, firstIndex, lastIndex, again, calls) ==
  LET firstMap == Shr(firstIndex, logValuesPerMap)
      lastMap == Shr(lastIndex, logValuesPerMap)
      firstEpoch == Shr(firstMap, logMapsPerEpoch)
      lastEpoch == Shr(lastMap, logMapsPerEpoch)
  IN  [pc |-> "select", q |-> q, cancelled |-> FALSE,
       firstMap |-> firstMap, lastMap |-> lastMap,
       firstEpoch |-> firstEpoch, lastEpoch |-> lastEpoch,
       startEpoch |-> firstEpoch, waitEpoch |-> firstEpoch,
       tasks |-> (firstEpoch :> newTask(firstEpoch)),
       workers |-> spawned, work |-> <<>>,
       logs |-> <<>>, err |-> FALSE,
       results |-> <<>>, finished |-> <<>>, firstFinished |-> -1,
       dispatched |-> <<>>, visited |-> <<>>,
       again |-> again, calls |-> calls]

\* matcher.go:19-22: the range is empty and no matcher is made.
noMatcher(q, again, calls) ==
  [newMatcher(q, 0, 0, again, calls) EXCEPT
     !.pc = "returned", !.tasks = <<>>,
     !.workers = [receiving |-> 0, processing |-> {}, exited |-> 0]]

\* The caller has the logs: those of its query, or those of the query it
\* made a second time.
returnLogs(q, again, logs) ==
  IF again
  THEN /\ replay' = [replay EXCEPT !.done = TRUE, !.result = logs]
       /\ UNCHANGED <<query, result>>
  ELSE /\ query' = q
       /\ result' = logs
       /\ UNCHANGED replay

\* matcher.go:13-39 up to the select loop, getLogIndexRange (248-277) under
\* the read lock.
findLogsByRange(q, again, calls) ==
  /\ canRLock(mu)
  /\ \E range \in {getLogIndexRange(q.firstBlock, q.lastBlock)} :
        /\ lvPointerCache' = range[3]
        /\ IF range[1] > range[2]
           THEN /\ run' = noMatcher(q, again, calls)
                /\ returnLogs(q, again, <<>>)
           ELSE /\ run' = newMatcher(q, range[1], range[2], again, calls)
                /\ UNCHANGED <<query, result, replay>>
  /\ UNCHANGED <<db, latestBlock, nextMapID, totalLogIndex, filterMapCache,
                 logDataCache, currentMap, currentLogData, logCounter,
                 ingested, restarts, envVars, threadVars>>

\* The caller calls FindLogsByRange.
StartQuery(q) ==
  /\ query = Nil
  /\ run.pc = "idle"
  /\ findLogsByRange(q, FALSE, Len(ingested))

\* A *big.Int that is nil.
NilBlock == -1

\* indexer.go:135-158: GetLogs.  The field enabled is read with no lock
\* held, and nothing sets it after NewFilterMapsIndexer.  A fromBlock that
\* is nil leaves from at 0.  With a toBlock, GetLogs reads nothing else of
\* the indexer before FindLogsByRange takes the read lock, and the call is
\* taken up to there.  A toBlock that is nil makes to the latestBlock of
\* the indexer, read in a read-locked section of its own (152-154); the
\* lock is released before FindLogsByRange takes it again, and an IndexLogs
\* call can get the mutex in between.
GetLogs(fromBlock, toBlock, addresses, topics) ==
  /\ query = Nil
  /\ run.pc = "idle"
  /\ LET from == IF fromBlock # NilBlock THEN fromBlock ELSE 0
         to == IF toBlock # NilBlock THEN toBlock ELSE latestBlock
         q == newQuery(from, to, addresses, topics)
     IN  IF ~enabled
         THEN /\ run' = noMatcher(q, FALSE, Len(ingested))
              /\ returnLogs(q, FALSE, <<>>)
              /\ UNCHANGED <<db, indexerVars, ingested, restarts, envVars,
                             threadVars>>
         ELSE IF toBlock # NilBlock
         THEN findLogsByRange(q, FALSE, Len(ingested))
         ELSE /\ canRLock(mu)
              /\ run' = [pc |-> "findLogsByRange", q |-> q,
                         calls |-> Len(ingested)]
              /\ UNCHANGED <<db, indexerVars, ingested, query, result,
                             restartVars, envVars, threadVars>>

\* indexer.go:157 after 152-154: GetLogs calls FindLogsByRange with from and
\* the latestBlock it has read.
GetLogsFindLogsByRange ==
  /\ run.pc = "findLogsByRange"
  /\ findLogsByRange(run.q, FALSE, run.calls)

matcherUnchanged ==
  UNCHANGED <<db, indexerVars, ingested, query, result, restartVars,
              envVars, threadVars>>

\* matcher.go:118-125: the first and the last map of an epoch within
\* firstMap..lastMap.
epochFirstMap(epochIndex, firstMap) ==
  IF Shl(epochIndex, logMapsPerEpoch) < firstMap THEN firstMap
  ELSE Shl(epochIndex, logMapsPerEpoch)
epochLastMap(epochIndex, lastMap) ==
  IF Shl(epochIndex, logMapsPerEpoch) + mapsPerEpoch - 1 > lastMap THEN lastMap
  ELSE Shl(epochIndex, logMapsPerEpoch) + mapsPerEpoch - 1

\* What a worker holds of a map: the object IndexLogs is filling, shared
\* with it, or an object that is written no more, as its value.
noRef == [shared |-> FALSE, value |-> Nil]
sharedRef == [shared |-> TRUE, value |-> Nil]
sealedRef(value) == [shared |-> FALSE, value |-> value]

\* What the object a worker holds contains now.  The map that was filled is
\* put into the cache when it is sealed (indexer.go:173-174).
heldFilterMap(ref, mapIndex) ==
  IF ~ref.shared THEN ref.value
  ELSE IF mapIndex = nextMapID THEN currentMap
  ELSE filterMapCache[mapIndex]
heldLogData(ref, mapIndex) ==
  IF ~ref.shared THEN ref.value
  ELSE IF mapIndex = nextMapID THEN currentLogData
  ELSE logDataCache[mapIndex]

\* The FilterMap that indexes the logs logs[k..] of map m from fm on.
RECURSIVE indexOfLogs(_, _, _, _)
indexOfLogs(fm, m, logs, k) ==
  IF k > Len(logs) THEN fm
  ELSE With(AddLogToMap(fm, m, Shl(m, logValuesPerMap) + k - 1,
                        logs[k].Address, logs[k].Topics),
            LAMBDA next : indexOfLogs(next, m, logs, k + 1))

\* The values the IndexLogs call inside its loop has added to map m for
\* the log at hand, which is not in the list of the map yet.
valuesInFlight(m) ==
  IF m = nextMapID /\ \E t \in WriterIds : writers[t].pc = "loop"
  THEN LET t == CHOOSE u \in WriterIds : writers[u].pc = "loop"
       IN  SubSeq(valuesInOrder(logAtHand(t)), 1, writers[t].call.j)
  ELSE <<>>

\* For every row of the map the worker w has of IndexLogs, 0 while the row
\* has the array it had when w took the mutex in getLogData, or the one it
\* was made with since; once an append has replaced that array, its
\* capacity.  The list of the map had w.seen logs then, each with its
\* values in the map.
replacedArrays(w) ==
  IF ~w.fm.shared THEN [r \in Rows |-> 0]
  ELSE With(<<heldLogData(w.logData, w.mapIndex).Logs,
              valuesInFlight(w.mapIndex)>>,
            LAMBDA added :
              IF Len(added[1]) = w.seen /\ Len(added[2]) = 0
              THEN [r \in Rows |-> 0]
              ELSE With(arraysOfLogs(<<NewFilterMap, noArrays>>, w.mapIndex,
                                     SubSeq(added[1], 1, w.seen), 1),
                        LAMBDA synced :
                          With(arraysOfValues(
                                 arraysOfLogs(synced, w.mapIndex, added[1],
                                              w.seen + 1),
                                 w.mapIndex,
                                 Shl(w.mapIndex, logValuesPerMap)
                                   + Len(added[1]),
                                 added[2], 1),
                               LAMBDA now :
                                 [r \in Rows |->
                                    IF Len(now[2][r]) > Len(synced[2][r])
                                         /\ Len(now[2][r]) > 1
                                    THEN now[2][r][IF Len(synced[2][r]) = 0
                                                   THEN 1
                                                   ELSE Len(synced[2][r])]
                                    ELSE 0])))

\* What a read of the list of logs at localIdx (matcher.go:190-194) can
\* find when the list had synced logs as the goroutine last took the mutex
\* and the goroutine has found the length len or more since: a length that
\* leaves localIdx out, the log, or at a position appended since, the nil
\* the list was made with.
readsOfLog(logData, synced, len, localIdx) ==
  (IF localIdx >= len THEN {"none"} ELSE {})
    \cup (IF localIdx < Len(logData.Logs) THEN {"log"} ELSE {})
    \cup (IF localIdx >= synced /\ localIdx < Len(logData.Logs)
          THEN {"nil"} ELSE {})

\* matcher.go:117-128: the worker enters processEpoch.  Of the map
\* IndexLogs is filling the worker has, from its getLogData on, the number
\* of logs the list had then (seen), the least length a read of the list
\* can find (len) and what it has found of the rows (rows).
newWork(epochIndex, firstMap, lastMap) ==
  [mapIndex |-> epochFirstMap(epochIndex, firstMap),
   lastMap |-> epochLastMap(epochIndex, lastMap),
   pc |-> "getFilterMap", fm |-> noRef, logData |-> noRef,
   seen |-> 0, len |-> 0, rows |-> Nil, i |-> 1, k |-> 1, matches |-> {},
   topicMatches |-> {}, logs |-> <<>>]

\* matcher.go:93-99 with 68-71: the send of tasks[startEpoch] is taken by
\* a worker at the receive.  Past lastEpoch the map has no entry and the
\* value sent is nil, on which the worker leaves its loop.
Dispatch ==
  /\ run.pc = "select"
  /\ run.workers.receiving > 0
  /\ run' = [run EXCEPT
               !.workers =
                  IF run.startEpoch <= run.lastEpoch
                  THEN [@ EXCEPT !.receiving = @ - 1,
                                 !.processing = @ \cup {run.startEpoch}]
                  ELSE [@ EXCEPT !.receiving = @ - 1, !.exited = @ + 1],
               !.work =
                  IF run.startEpoch <= run.lastEpoch
                  THEN (run.startEpoch
                          :> newWork(run.startEpoch, run.firstMap, run.lastMap))
                         @@ @
                  ELSE @,
               !.dispatched = IF run.startEpoch <= run.lastEpoch
                              THEN Append(@, run.startEpoch) ELSE @,
               !.startEpoch = @ + 1,
               !.tasks =
                  IF run.startEpoch + 1 <= run.lastEpoch
                  THEN ((run.startEpoch + 1) :> newTask(run.startEpoch + 1)) @@ @
                  ELSE @]
  /\ matcherUnchanged

\* The ways a set of matches can be visited (matcher.go:188: the order of a
\* range over a Go map is not defined).
RECURSIVE orders(_)
orders(set) ==
  IF set = {} THEN {<<>>}
  ELSE UNION {{<<x>> \o rest : rest \in orders(set \ {x})} : x \in set}

\* The worker of the epoch is at pc.
workerAt(epochIndex, pc) ==
  /\ run.pc \in {"select", "closing"}
  /\ epochIndex \in run.workers.processing
  /\ run.work[epochIndex].pc = pc

\* matcher.go:128-131: processMap has returned, the loop of processEpoch
\* goes on to the next map.
nextMap(w) ==
  [w EXCEPT !.mapIndex = @ + 1, !.pc = "getFilterMap", !.fm = noRef,
            !.logData = noRef, !.seen = 0, !.len = 0, !.rows = Nil, !.i = 1,
            !.k = 1, !.matches = {}, !.topicMatches = {}]

\* matcher.go:165-168, 185-188: the loop over the topic lists goes on from
\* list i to the next one that is not empty or, past the last, to the loop
\* over the matches; with no match left processMap returns.
RECURSIVE toTopics(_, _, _)
toTopics(w, topics, i) ==
  IF i > Len(topics)
  THEN IF w.matches = {} THEN nextMap(w)
       ELSE [w EXCEPT !.pc = "verify", !.rows = Nil, !.i = i, !.k = 1]
  ELSE IF Len(topics[i]) = 0 THEN toTopics(w, topics, i + 1)
  ELSE [w EXCEPT !.pc = "topics", !.i = i, !.k = 1, !.topicMatches = {}]

\* One more of x counted.
countOne(counts, x) ==
  IF x \in DOMAIN counts THEN [counts EXCEPT ![x] = @ + 1]
  ELSE (x :> 1) @@ counts

\* The worker of the epoch goes on as w; visited counts for every map the
\* times a worker got through with it.
workerStep(epochIndex, w) ==
  run' = [run EXCEPT
            !.work[epochIndex] = w,
            !.visited = IF w.mapIndex > run.work[epochIndex].mapIndex
                        THEN countOne(@, run.work[epochIndex].mapIndex)
                        ELSE @]

workerUnchanged ==
  UNCHANGED <<db, latestBlock, nextMapID, totalLogIndex, lvPointerCache,
              currentMap, currentLogData, logCounter, ingested, query,
              result, restartVars, envVars, threadVars>>

\* matcher.go:128-129, 137-140 with getFilterMap (279-297), under the read
\* lock.
GetFilterMap(epochIndex) ==
  /\ workerAt(epochIndex, "getFilterMap")
  /\ run.work[epochIndex].mapIndex <= run.work[epochIndex].lastMap
  /\ canRLock(mu)
  /\ \E f \in {getFilterMap(filterMapCache, run.work[epochIndex].mapIndex)} :
        /\ filterMapCache' = f[2]
        /\ workerStep(epochIndex,
                      IF f[1] = Nil THEN nextMap(run.work[epochIndex])
                      ELSE [run.work[epochIndex] EXCEPT
                              !.pc = "getLogData",
                              !.fm = IF f[3] THEN sharedRef
                                     ELSE sealedRef(f[1])])
  /\ UNCHANGED logDataCache
  /\ workerUnchanged

\* matcher.go:142-149 with getLogData (299-317), under the read lock.  With
\* the LogData of a sealed map the rest of processMap (147-205) follows:
\* the candidates of the addresses or every log, narrowed by the topics,
\* each verified, in any order; the map is sealed as well, and no write of
\* the two is later than this taking of the mutex.
GetLogData(epochIndex) ==
  /\ workerAt(epochIndex, "getLogData")
  /\ canRLock(mu)
  /\ \E l \in {getLogData(logDataCache, run.work[epochIndex].mapIndex)} :
        /\ logDataCache' = l[2]
        /\ IF l[1] = Nil
           THEN workerStep(epochIndex, nextMap(run.work[epochIndex]))
           ELSE IF l[3]
           THEN workerStep(epochIndex,
                           [run.work[epochIndex] EXCEPT
                              !.pc = IF Len(run.q.addresses) > 0
                                     THEN "addresses" ELSE "logs",
                              !.logData = sharedRef,
                              !.seen = Len(l[1].Logs),
                              !.len = Len(l[1].Logs),
                              !.rows =
                                 heldFilterMap(run.work[epochIndex].fm,
                                               run.work[epochIndex].mapIndex)])
           ELSE \E logs \in orders(matchMap(run.q,
                                            heldFilterMap(
                                              run.work[epochIndex].fm,
                                              run.work[epochIndex].mapIndex),
                                            l[1],
                                            run.work[epochIndex].mapIndex)) :
                  workerStep(epochIndex,
                             nextMap([run.work[epochIndex] EXCEPT
                                        !.logs = @ \o logs]))
  /\ UNCHANGED filterMapCache
  /\ workerUnchanged

\* matcher.go:151-152, 173-174: getRowsForValue and potentialMatches for
\* the value v on the map fm the worker w has: <<the matches, what w has
\* then found of the rows, FALSE>> for every way the reads can go, and
\* <<(<<>>), Nil, TRUE>> if a read can go on behind the end of an array
\* into memory the process does not have.
scansOfRowsForValue(fm, w, v) ==
  With(readsOfRowsForValue(fm, w.rows, replacedArrays(w), w.mapIndex, v),
       LAMBDA reads :
         {<<potentialMatches(read[1], w.mapIndex, v), read[2], FALSE>> :
            read \in reads}
           \cup {<<(<<>>), Nil, TRUE>> : read \in {r \in reads : r[3]}})

\* matcher.go:150-157: one iteration of the loop over the addresses, on
\* the rows of the map the worker has.  A read behind the end of an array
\* finds what memory there is, or none, which ends the process.
MatchAddress(epochIndex) ==
  /\ workerAt(epochIndex, "addresses")
  /\ LET w == run.work[epochIndex]
         v == addressValue(run.q.addresses[w.k])
         fm == heldFilterMap(w.fm, w.mapIndex)
     IN  \E found \in scansOfRowsForValue(fm, w, v) :
           IF found[3] THEN run' = panicked
           ELSE workerStep(epochIndex,
                           IF w.k < Len(run.q.addresses)
                           THEN [w EXCEPT !.matches = @ \cup Range(found[1]),
                                          !.rows = found[2],
                                          !.k = @ + 1]
                           ELSE toTopics([w EXCEPT
                                            !.matches = @ \cup Range(found[1]),
                                            !.rows = found[2]],
                                         run.q.topics, 1))
  /\ UNCHANGED <<filterMapCache, logDataCache>>
  /\ workerUnchanged

\* matcher.go:159-163: every log the LogData holds is a match; the loop
\* ends at a length the list had since the worker took the mutex.
CountLogs(epochIndex) ==
  /\ workerAt(epochIndex, "logs")
  /\ LET w == run.work[epochIndex]
         mapFirst == Shl(w.mapIndex, logValuesPerMap)
         logData == heldLogData(w.logData, w.mapIndex)
     IN  \E n \in w.len..Len(logData.Logs) :
           workerStep(epochIndex,
                      toTopics([w EXCEPT
                                  !.matches = {mapFirst + i : i \in 0..(n - 1)},
                                  !.len = n],
                               run.q.topics, 1))
  /\ UNCHANGED <<filterMapCache, logDataCache>>
  /\ workerUnchanged

\* matcher.go:171-182: one iteration of the loop over the topics of a
\* position; after the last the matches are those of the position.
MatchTopic(epochIndex) ==
  /\ workerAt(epochIndex, "topics")
  /\ LET w == run.work[epochIndex]
         v == topicValue(run.q.topics[w.i][w.k])
         fm == heldFilterMap(w.fm, w.mapIndex)
     IN  \E found \in scansOfRowsForValue(fm, w, v) :
           IF found[3] THEN run' = panicked
           ELSE workerStep(epochIndex,
                           IF w.k < Len(run.q.topics[w.i])
                           THEN [w EXCEPT
                                   !.topicMatches =
                                      @ \cup (w.matches \cap Range(found[1])),
                                   !.rows = found[2],
                                   !.k = @ + 1]
                           ELSE toTopics([w EXCEPT
                                            !.matches =
                                               w.topicMatches
                                                 \cup (w.matches
                                                         \cap Range(found[1])),
                                            !.rows = found[2],
                                            !.topicMatches = {}],
                                         run.q.topics, w.i + 1))
  /\ UNCHANGED <<filterMapCache, logDataCache>>
  /\ workerUnchanged

\* matcher.go:188-203: one iteration of the loop over the matches, taken in
\* any order; after the last processMap returns.
VerifyMatch(epochIndex) ==
  /\ workerAt(epochIndex, "verify")
  /\ LET w == run.work[epochIndex]
         mapFirst == Shl(w.mapIndex, logValuesPerMap)
         logData == heldLogData(w.logData, w.mapIndex)
     IN  \E matchIdx \in w.matches :
         \E read \in readsOfLog(logData, w.seen, w.len,
                                matchIdx - mapFirst) :
           LET logs == IF read = "log"
                          /\ keepMatch(run.q, logData, mapFirst, matchIdx)
                       THEN Append(w.logs,
                                   [lvIndex |-> matchIdx,
                                    log |-> logData.Logs[matchIdx - mapFirst + 1]])
                       ELSE w.logs
               len == IF read = "log" /\ matchIdx - mapFirst >= w.len
                      THEN matchIdx - mapFirst + 1 ELSE w.len
               rest == [w EXCEPT !.matches = @ \ {matchIdx}, !.logs = logs,
                                 !.len = len]
           IN  IF read = "nil" THEN run' = panicked
               ELSE workerStep(epochIndex,
                               IF rest.matches = {} THEN nextMap(rest)
                               ELSE rest)
  /\ UNCHANGED <<filterMapCache, logDataCache>>
  /\ workerUnchanged

\* The worker of the epoch has stored its list in the task, closed the done
\* channel of the task and is back at the receive.
taskStored(epochIndex) ==
  [run EXCEPT
     !.tasks[epochIndex] = [@ EXCEPT !.logs = run.work[epochIndex].logs,
                                     !.done = TRUE],
     !.workers = [@ EXCEPT !.receiving = @ + 1,
                           !.processing = @ \ {epochIndex}],
     !.work = [e \in DOMAIN @ \ {epochIndex} |-> @[e]],
     !.results = (epochIndex :> run.work[epochIndex].logs) @@ @,
     !.finished = countOne(@, epochIndex),
     !.firstFinished = IF @ = -1 THEN epochIndex ELSE @]

\* matcher.go:72-73 with 128, 133: the worker is past the last map of the
\* epoch; processEpoch returns, the list is stored in the task and its done
\* channel closed, and the worker is back at the receive.
Process(epochIndex) ==
  /\ workerAt(epochIndex, "getFilterMap")
  /\ run.work[epochIndex].mapIndex > run.work[epochIndex].lastMap
  /\ run' = taskStored(epochIndex)
  /\ matcherUnchanged

\* The new list put before the collected ones.
prependLogs(logs, taskLogs) == taskLogs \o logs

\* matcher.go:105
appendLogs(logs, taskLogs) == logs \o taskLogs

\* matcher.go:101-107 and 91, 114: the done channel of tasks[waitEpoch] is
\* closed; its logs are appended, and past lastEpoch the loop ends and
\* process returns the logs.
Collect ==
  /\ run.pc = "select"
  /\ run.tasks[run.waitEpoch].done
  /\ run' = [run EXCEPT
               !.logs = appendLogs(@, run.tasks[run.waitEpoch].logs),
               !.tasks = [e \in DOMAIN @ \ {run.waitEpoch} |-> @[e]],
               !.waitEpoch = @ + 1,
               !.pc = IF run.waitEpoch + 1 <= run.lastEpoch
                      THEN "select" ELSE "closing"]
  /\ matcherUnchanged

\* The caller cancels the context while process is in its loop.
Cancel ==
  /\ run.pc = "select"
  /\ ~run.cancelled
  /\ run' = [run EXCEPT !.cancelled = TRUE]
  /\ matcherUnchanged

\* matcher.go:109-110
ObserveCancel ==
  /\ run.pc = "select"
  /\ run.cancelled
  /\ run' = [run EXCEPT !.pc = "closing", !.err = TRUE, !.logs = <<>>]
  /\ matcherUnchanged

\* matcher.go:63 with 68, 75: taskCh is closed, the range loop of a worker
\* at the receive ends.
WorkerExit ==
  /\ run.pc = "closing"
  /\ run.workers.receiving > 0
  /\ run' = [run EXCEPT !.workers.receiving = @ - 1, !.workers.exited = @ + 1]
  /\ matcherUnchanged

\* process returning without wg.Wait().
JoinWithoutWait ==
  /\ run.pc = "closing"
  /\ run' = [run EXCEPT !.pc = "returned"]
  /\ returnLogs(run.q, run.again,
                IF run.err THEN <<>>
                ELSE [k \in 1..Len(run.logs) |-> {run.logs[k]}])
  /\ UNCHANGED <<db, indexerVars, ingested, restarts, envVars, threadVars>>

\* matcher.go:64 and the return of process and of FindLogsByRange: wg.Wait()
\* has seen every worker call wg.Done().
Join ==
  /\ run.pc = "closing"
  /\ run.workers.exited = NumWorkers
  /\ run' = [run EXCEPT !.pc = "returned"]
  /\ returnLogs(run.q, run.again,
                IF run.err THEN <<>>
                ELSE [k \in 1..Len(run.logs) |-> {run.logs[k]}])
  /\ UNCHANGED <<db, indexerVars, ingested, restarts, envVars, threadVars>>

\* The caller drops the result and goes on.
Return ==
  /\ query # Nil
  /\ run.pc \in {"idle", "returned"}
  /\ query' = Nil
  /\ result' = <<>>
  /\ replay' = noReplay
  /\ run' = noRun
  /\ UNCHANGED <<db, indexerVars, ingested, restarts, envVars, threadVars>>

\* The epochs of the maps that can hold a log.
Epochs == {Shr(m, logMapsPerEpoch) : m \in memoMaps}

\* The steps of the workers.
ProcessEpochs == \E epochIndex \in Epochs : Process(epochIndex)
GetFilterMaps == \E epochIndex \in Epochs : GetFilterMap(epochIndex)
GetLogDatas == \E epochIndex \in Epochs : GetLogData(epochIndex)
MatchAddresses == \E epochIndex \in Epochs : MatchAddress(epochIndex)
CountsLogs == \E epochIndex \in Epochs : CountLogs(epochIndex)
MatchTopics == \E epochIndex \in Epochs : MatchTopic(epochIndex)
VerifyMatches == \E epochIndex \in Epochs : VerifyMatch(epochIndex)

(***************************************************************************)
(* The specification: one goroutine ingests two blocks, of no logs, of a   *)
(* few, of more than a map's worth and, the first, of the maps of two      *)
(* epochs, while another makes queries by address over them.               *)
(***************************************************************************)
SpecBlocks == 1..MaxSpecBlocks

BeginIngest ==
  /\ nextBlock <= MaxSpecBlocks
  /\ \E n \in {0, MaxSparseLogsPerCall, MaxLogsPerCall}
                \cup (IF nextBlock = 1 THEN {MaxBulkLogsPerCall} ELSE {}) :
        BeginIndexLogs(nextBlock, logBatch(nextBlock % NumSeeds, n, nextBlock))

\* A query filtering by address alone, made by a call of FindLogsByRange;
\* over many logs it is for one address and the last block, which keeps
\* the orders the matches of the maps can be visited in few.
QueryAddresses ==
  \E firstBlock \in SpecBlocks, lastBlock \in SpecBlocks,
     addresses \in listsOver(Addresses) :
    /\ firstBlock <= lastBlock
    /\ IF totalLogIndex <= MaxWideQueryLogs THEN TRUE
       ELSE Len(addresses) = 1 /\ firstBlock = MaxSpecBlocks
    /\ StartQuery(newQuery(firstBlock, lastBlock, addresses, <<>>))

\* A query for one address made by a call of GetLogs, with or without a
\* first and a last block, while the index holds the logs of few maps.
CallGetLogs ==
  \E fromBlock \in {NilBlock, MaxSpecBlocks}, toBlock \in {NilBlock, 1},
     a \in Addresses :
    /\ totalLogIndex <= MaxLogsPerCall
    /\ GetLogs(fromBlock, toBlock, <<a>>, <<>>)

Next ==
  \/ BeginIngest
  \/ IngesterLoops
  \/ IngesterReturns
  \/ QueryAddresses
  \/ CallGetLogs
  \/ GetLogsFindLogsByRange
  \/ Dispatch
  \/ ProcessEpochs
  \/ GetFilterMaps
  \/ GetLogDatas
  \/ MatchAddresses
  \/ CountsLogs
  \/ VerifyMatches
  \/ Collect
  \/ WorkerExit
  \/ Join
  \/ Return

Spec == Init /\ [][Next]_vars

\* Ingestion alone: the states the maps go through with no query in between.
NextIngest == Ingest \/ IngestBulk

SpecIngest == Init /\ [][NextIngest]_vars

(***************************************************************************)
(* A second specification: a few small blocks, queried with filters over   *)
(* addresses and topic positions.                                          *)
(***************************************************************************)
IngestFew ==
  /\ nextBlock <= MaxFilterBlocks
  /\ \E n \in 0..MaxFilterLogsPerCall, seed \in 0..(NumSeeds - 1) :
        /\ n = 0 => seed = 0
        /\ IndexLogs(nextBlock, logBatch(seed, n, nextBlock))

\* A block without logs or with as many as a map holds.
BeginIngestFew ==
  /\ nextBlock <= MaxFilterBlocks
  /\ \E n \in {0, MaxFilterLogsPerCall} :
        BeginIndexLogs(nextBlock, logBatch((nextBlock + 1) % NumSeeds, n, nextBlock))

FilterBlocks == 1..MaxFilterBlocks

QueryFilters ==
  \E firstBlock \in FilterBlocks, lastBlock \in FilterBlocks,
     addresses \in listsOver(Addresses), topics \in topicFilters(MaxTopics) :
    /\ firstBlock <= lastBlock
    /\ StartQuery(newQuery(firstBlock, lastBlock, addresses, topics))

NextFilters ==
  \/ BeginIngestFew
  \/ IngesterLoops
  \/ IngesterReturns
  \/ QueryFilters
  \/ Dispatch
  \/ ProcessEpochs
  \/ GetFilterMaps
  \/ GetLogDatas
  \/ MatchAddresses
  \/ CountsLogs
  \/ MatchTopics
  \/ VerifyMatches
  \/ Collect
  \/ WorkerExit
  \/ Join
  \/ Return

SpecFilters == Init /\ [][NextFilters]_vars

(***************************************************************************)
(* A third specification: more blocks, each with few logs or none, queried *)
(* with filters over addresses and topic positions.                        *)
(***************************************************************************)
\* A block has no logs, or one log if it is the first, or two.
BeginIngestSparse ==
  /\ nextBlock <= MaxSparseBlocks
  /\ \E n \in {0, IF nextBlock = 1 THEN 1 ELSE MaxSparseLogsPerCall} :
        BeginIndexLogs(nextBlock, logBatch(nextBlock % NumSeeds, n, nextBlock))

SparseBlocks == 1..MaxSparseBlocks

\* A query with no filter, or for the first address, or for the first topic
\* at position 0.
QuerySparse ==
  \E firstBlock \in SparseBlocks, lastBlock \in SparseBlocks,
     filter \in {<<(<<>>), (<<>>)>>, <<(<<1>>), (<<>>)>>,
                 <<(<<>>), (<<(<<1>>)>>)>>} :
    /\ firstBlock <= lastBlock
    /\ StartQuery(newQuery(firstBlock, lastBlock, filter[1], filter[2]))

NextSparse ==
  \/ BeginIngestSparse
  \/ IngesterLoops
  \/ IngesterReturns
  \/ QuerySparse
  \/ Dispatch
  \/ ProcessEpochs
  \/ GetFilterMaps
  \/ GetLogDatas
  \/ MatchAddresses
  \/ CountsLogs
  \/ MatchTopics
  \/ VerifyMatches
  \/ Collect
  \/ WorkerExit
  \/ Join
  \/ Return

SpecSparse == Init /\ [][NextSparse]_vars

(***************************************************************************)
(* A fourth specification: the indexer is dropped and a new one is created *)
(* over the same KV store (indexer_test.go:221-248).  The new indexer has  *)
(* the fields NewFilterMapsIndexer gives it; the store is what the old one *)
(* had written.  A query that ran on the old indexer can be run again on   *)
(* the new one.                                                            *)
(***************************************************************************)
MaxRestarts == 1
MaxRestartBlocks == 3

\* Blocks of no logs, of a few, and of more than one map's worth.
IngestBatch ==
  /\ nextBlock <= MaxRestartBlocks
  /\ \E n \in {0, MaxSparseLogsPerCall, MaxLogsPerCall} :
        IndexLogs(nextBlock, logBatch(nextBlock % NumSeeds, n, nextBlock))

\* Blocks of no logs or, but for the last, of more than one map's worth;
\* a new indexer is also given a block of a few logs, which it puts into a
\* map of an index the store can hold a map of already.
BeginIngestBatch ==
  /\ nextBlock <= MaxRestartBlocks
  /\ \E n \in {0} \cup (IF nextBlock < MaxRestartBlocks
                          THEN {MaxLogsPerCall} ELSE {})
                   \cup (IF restarts > 0 THEN {MaxSparseLogsPerCall} ELSE {}) :
        BeginIndexLogs(nextBlock, logBatch(nextBlock % NumSeeds, n, nextBlock))

\* indexer.go:54-68 called with the store of the previous indexer, when no
\* goroutine is inside the previous one.  A query the previous indexer has
\* answered stays with the caller, with the number of IndexLogs calls made
\* before it.
Restart ==
  /\ restarts < MaxRestarts
  /\ ~replay.reopened
  /\ run.pc \in {"idle", "returned"}
  /\ canLock(mu)
  /\ restarts' = restarts + 1
  /\ latestBlock' = 0
  /\ nextMapID' = 0
  /\ totalLogIndex' = 0
  /\ filterMapCache' = <<>>
  /\ logDataCache' = <<>>
  /\ lvPointerCache' = <<>>
  /\ currentMap' = Nil
  /\ currentLogData' = Nil
  /\ logCounter' = 0
  /\ replay' = [replay EXCEPT
                  !.reopened = (query # Nil),
                  !.calls = IF run.pc = "returned" THEN run.calls ELSE 0]
  /\ run' = noRun
  /\ enabled' = TRUE
  /\ UNCHANGED <<db, ingested, query, result, refused, faults, threadVars>>

\* A query for one address.
QueryAddress ==
  \E firstBlock \in SpecBlocks, lastBlock \in SpecBlocks, a \in Addresses :
    /\ firstBlock <= lastBlock
    /\ StartQuery(newQuery(firstBlock, lastBlock, <<a>>, <<>>))

\* The caller makes the query the previous indexer has answered a second
\* time, on the new indexer (matcher.go:13-39).
Replay ==
  /\ query # Nil
  /\ replay.reopened
  /\ ~replay.done
  /\ run.pc = "idle"
  /\ findLogsByRange(query, TRUE, Len(ingested))

NextRestart ==
  \/ BeginIngestBatch
  \/ IngesterLoops
  \/ IngesterReturns
  \/ Restart
  \/ QueryAddress
  \/ Replay
  \/ Dispatch
  \/ ProcessEpochs
  \/ GetFilterMaps
  \/ GetLogDatas
  \/ MatchAddresses
  \/ VerifyMatches
  \/ Collect
  \/ WorkerExit
  \/ Join
  \/ Return

SpecRestart == Init /\ [][NextRestart]_vars

(***************************************************************************)
(* What was ingested, and what a query returned.                           *)
(***************************************************************************)
\* The logs of the first k IndexLogs calls, in ingestion order; the log at
\* position i + 1 has global index i.
RECURSIVE logsOfCalls(_)
logsOfCalls(k) == IF k = 0 THEN <<>> ELSE logsOfCalls(k - 1) \o ingested[k].logs

ingestedLogs == logsOfCalls(Len(ingested))

\* The returned logs, each with the global index it was matched at.
returned == UNION {result[k] : k \in 1..Len(result)}

\* The filter of a query, as the specification states it: the address is
\* one of the wanted ones (if any are given), and at every position with
\* wanted topics the log has a topic, and it is one of them.
wanted(q, log) ==
  /\ log.BlockNumber >= q.firstBlock
  /\ log.BlockNumber <= q.lastBlock
  /\ q.addresses # <<>> => \E k \in 1..Len(q.addresses) : q.addresses[k] = log.Address
  /\ \A i \in 1..Len(q.topics) :
        q.topics[i] # <<>>
          => /\ Len(log.Topics) >= i
             /\ \E k \in 1..Len(q.topics[i]) : q.topics[i][k] = log.Topics[i]

\* The ingested logs a query should return, each with its global index.
expected(q) ==
  {[lvIndex |-> i - 1, log |-> ingestedLogs[i]] :
     i \in {j \in 1..Len(ingestedLogs) : wanted(q, ingestedLogs[j])}}

\* No IndexLogs call has begun since the query was made: the query ran, and
\* its result is looked at, with the indexer as the calls before it left it.
undisturbed == run.pc = "returned" /\ Len(ingested) = run.calls

singleAddressQuery ==
  /\ query # Nil
  /\ undisturbed
  /\ Len(query.addresses) = 1
  /\ query.topics = <<>>

(***************************************************************************)
(* C1.  No false negatives: after IndexLogs calls with increasing block    *)
(* numbers, FindLogsByRange(b, b, [a], no topics) returns every log of     *)
(* block b whose address is a, whatever the number of logs per block and   *)
(* of maps already filled.                                                 *)
(***************************************************************************)
C1_NoFalseNegatives ==
  (singleAddressQuery /\ query.firstBlock = query.lastBlock)
    => expected(query) \subseteq returned

(***************************************************************************)
(* C2.  Exact address query: FindLogsByRange(b1, b2, [a], no topics)       *)
(* returns exactly the ingested logs with address a and block number in    *)
(* [b1, b2]: none missing, none extra, none twice.                         *)
(***************************************************************************)
C2_ExactAddressQuery ==
  singleAddressQuery
    => /\ returned = expected(query)
       /\ \A j, k \in 1..Len(result) : j # k => result[j] \cap result[k] = {}

(***************************************************************************)
(* C3.  Exact verification: every log FindLogsByRange(first, last,         *)
(* addresses, topics) returns is an ingested log with BlockNumber in       *)
(* [first, last], with its address among addresses when addresses is not   *)
(* empty, and with, at every position i where topics[i] is not empty, a    *)
(* topic that is a member of topics[i]; a log that has the wanted topic    *)
(* only at another position, or no topic at position i, is not returned.   *)
(***************************************************************************)
C3_ExactVerification ==
  query # Nil
    => \A r \in returned :
         /\ r.lvIndex < Len(ingestedLogs)
         /\ r.log = ingestedLogs[r.lvIndex + 1]
         /\ wanted(query, r.log)

\* A query for topic 1 at position 0 over a block holding a log with topic 1
\* at position 1 only: that log is left out, another log is returned.
C3_Witness ==
  /\ query # Nil
  /\ query.topics = <<<<1>>>>
  /\ query.addresses = <<>>
  /\ returned # {}
  /\ \E i \in 1..Len(ingestedLogs) :
        /\ ingestedLogs[i].Topics = <<2, 1>>
        /\ ingestedLogs[i].BlockNumber = query.firstBlock
        /\ [lvIndex |-> i - 1, log |-> ingestedLogs[i]] \notin returned

(***************************************************************************)
(* The pointer table, the maps and the LogData as the store, the caches    *)
(* and the indexer hold them.                                              *)
(***************************************************************************)
PointerBlocks == 0..(MaxBlocks + 1)

hasPointer(b) == dbHas(db, blockLvPointerKey(b))
storedPointer(b) == BigEndianToUint64(dbGet(db, blockLvPointerKey(b)))

\* The global indices of the ingested logs, and the map of an index.
LogIndices == 0..(Len(ingestedLogs) - 1)
mapOf(i) == Shr(i, logValuesPerMap)

\* The values AddLogToMap derives from a log.
valuesOf(log) ==
  {addressValue(log.Address)}
    \cup {topicValue(log.Topics[k]) : k \in 1..Len(log.Topics)}

(***************************************************************************)
(* C4.  The pointer stored for every ingested block b is the number of    *)
(* logs ingested by the calls before the call for b; so for consecutive    *)
(* blocks b and b + 1 the difference of their pointers is the number of    *)
(* logs of block b.                                                        *)
(***************************************************************************)
C4_PointerCountsEarlierLogs ==
  /\ \A k \in 1..Len(ingested) :
        LET b == ingested[k].blockNumber
        IN  /\ hasPointer(b)
            /\ storedPointer(b) = Len(logsOfCalls(k - 1))
            /\ lruHas(lvPointerCache, b)
            /\ lvPointerCache[b] = Len(logsOfCalls(k - 1))
  /\ \A k \in 1..(Len(ingested) - 1) :
        ingested[k + 1].blockNumber = ingested[k].blockNumber + 1
          => storedPointer(ingested[k + 1].blockNumber)
               - storedPointer(ingested[k].blockNumber)
             = Len(ingested[k].logs)

\* Three blocks, the second without logs, the first filling more than a map.
C4_Witness ==
  /\ Len(ingested) = 3
  /\ Len(ingested[1].logs) > valuesPerMap
  /\ ingested[2].logs = <<>>
  /\ ingested[3].logs # <<>>
  /\ storedPointer(3) = storedPointer(2)
  /\ storedPointer(2) = Len(ingested[1].logs)

(***************************************************************************)
(* C5.  BlockLvPointer is monotonically non-decreasing in block number:    *)
(* for any two blocks b1 < b2 that both have a stored pointer,             *)
(* BlockLvPointer(b1) <= BlockLvPointer(b2).                               *)
(* IndexLogs stores totalLogIndex for the block number it is given         *)
(* (indexer.go:78-82) whatever blocks came before: after IndexLogs(2, ...) *)
(* with a log and IndexLogs(1, ...) the pointer of block 1 is 1 and that   *)
(* of block 2 is 0.                                                        *)
(***************************************************************************)
C5_PointerMonotonic ==
  \A b1, b2 \in PointerBlocks :
    (b1 < b2 /\ hasPointer(b1) /\ hasPointer(b2))
      => /\ storedPointer(b1) <= storedPointer(b2)
         /\ getBlockLvPointer(lvPointerCache, db, b1)[1]
              <= getBlockLvPointer(lvPointerCache, db, b2)[1]

\* What holds of the order of the pointers: they do not decrease in the
\* order of the calls.
C5_MonotonicInCallOrder ==
  \A k1, k2 \in 1..Len(ingested) :
    k1 < k2 => storedPointer(ingested[k1].blockNumber)
                 <= storedPointer(ingested[k2].blockNumber)

\* A block ingested after a later one, its pointer above the later one's.
C5_EarlierBlockIngestedLater ==
  /\ Len(ingested) = 2
  /\ ingested[1].blockNumber = 2
  /\ ingested[2].blockNumber = 1
  /\ storedPointer(1) > storedPointer(2)

(***************************************************************************)
(* C6.  Log position: the log ingested with global index i is held by the  *)
(* LogData of map i >> logValuesPerMap at position i mod valuesPerMap, in  *)
(* every state after its ingestion: in the current LogData while that map  *)
(* is the current one, in the store and the cache once it is sealed.       *)
(***************************************************************************)
holdsAt(logData, i) ==
  /\ logData # Nil
  /\ Len(logData.Logs) > i % valuesPerMap
  /\ logData.Logs[(i % valuesPerMap) + 1] = ingestedLogs[i + 1]

C6_LogPosition ==
  \A i \in LogIndices :
    /\ mapOf(i) <= nextMapID
    /\ holdsAt(getLogData(logDataCache, mapOf(i))[1], i)
    /\ mapOf(i) = nextMapID => holdsAt(currentLogData, i)
    /\ mapOf(i) < nextMapID
         => /\ holdsAt(loadLogData(mapOf(i)), i)
            /\ lruHas(logDataCache, mapOf(i))
            /\ holdsAt(logDataCache[mapOf(i)], i)

\* Two sealed maps and a current map that is partly filled, after two calls.
C6_Witness ==
  /\ nextMapID >= 2
  /\ logCounter > 0
  /\ logCounter < valuesPerMap
  /\ Len(ingested) >= 2
  /\ ingested[Len(ingested)].logs # <<>>
  /\ holdsAt(loadLogData(1), valuesPerMap + 1)

(***************************************************************************)
(* C7.  Index completeness: for every ingested log with global index i in  *)
(* map m and every value v derived from its address or one of its topics   *)
(* there is a layer l such that row rowIndex(m, l, v) of map m contains    *)
(* columnIndex(i, v), in every state after the ingestion.                  *)
(***************************************************************************)
Layers == memoLayers

indexedIn(fm, m, i, v) ==
  /\ fm # Nil
  /\ \E l \in Layers : columnIndex(i, v) \in Range(fm[rowIndex(m, l, v)])

C7_IndexCompleteness ==
  \A i \in LogIndices :
    \A v \in valuesOf(ingestedLogs[i + 1]) :
      /\ indexedIn(getFilterMap(filterMapCache, mapOf(i))[1], mapOf(i), i, v)
      /\ mapOf(i) < nextMapID
           => /\ indexedIn(loadFilterMap(mapOf(i)), mapOf(i), i, v)
              /\ lruHas(filterMapCache, mapOf(i))
              /\ indexedIn(filterMapCache[mapOf(i)], mapOf(i), i, v)

\* A value of a log in a sealed map that is not in its row of layer 0: the
\* row was full, the value went to a higher layer.
C7_Witness ==
  \E i \in LogIndices :
    /\ mapOf(i) < nextMapID
    /\ \E v \in valuesOf(ingestedLogs[i + 1]) :
          /\ columnIndex(i, v)
               \notin Range(loadFilterMap(mapOf(i))[rowIndex(mapOf(i), 0, v)])
          /\ indexedIn(loadFilterMap(mapOf(i)), mapOf(i), i, v)

(***************************************************************************)
(* C8.  Row capacity.  As stated: rows at layer l never exceed             *)
(* baseRowLength << l entries, i.e. no row used as the layer-l row of some *)
(* value holds more than baseRowLength << l column entries.                *)
(* As the code has it: a value is appended to its layer-l row only while   *)
(* the row holds fewer than                                                *)
(*   baseRowLength << min(l * logLayerDiff, logMapsPerEpoch)               *)
(* entries, and no row ever holds more than                                *)
(* baseRowLength << logMapsPerEpoch entries.                               *)
(***************************************************************************)
\* The FilterMaps held: <<map index, map>> for the current map, the sealed
\* maps in the store and their copies in the cache.
heldMaps ==
  (IF currentMap # Nil THEN {<<nextMapID, currentMap>>} ELSE {})
    \cup {<<m, loadFilterMap(m)>> : m \in {k \in memoMaps : dbHas(db, filterMapKey(k))}}
    \cup {<<m, filterMapCache[m]>> : m \in DOMAIN filterMapCache}

\* Capacity of a layer-l row as the specification's formula for
\* max_row_length gives it, and as the row capacity invariant states it.
rowCapacity(l) ==
  baseRowLength * Pow(2, IF l * logLayerDiff < logMapsPerEpoch
                         THEN l * logLayerDiff ELSE logMapsPerEpoch)
statedRowCapacity(l) == baseRowLength * Pow(2, l)

\* The entry at position p of row r of map m was put there for a value of a
\* log of that map, at a layer whose capacity (cap) covers position p.
entryWithin(h, r, p, cap(_)) ==
  \E i \in {j \in LogIndices : mapOf(j) = h[1]} :
    \E v \in valuesOf(ingestedLogs[i + 1]) :
      \E l \in Layers :
        /\ rowIndex(h[1], l, v) = r
        /\ columnIndex(i, v) = h[2][r][p]
        /\ p <= cap(l)

C8_RowCapacity ==
  \A h \in heldMaps :
    \A r \in Rows :
      /\ Len(h[2][r]) <= baseRowLength * Pow(2, logMapsPerEpoch)
      /\ \A p \in 1..Len(h[2][r]) : entryWithin(h, r, p, rowCapacity)

\* The invariant as stated, in its weakest reading: every entry lies within the
\* first baseRowLength << l positions of its row, l being some layer at which
\* its value uses that row.
C8_RowCapacityAsStated ==
  \A h \in heldMaps :
    \A r \in Rows :
      \A p \in 1..Len(h[2][r]) : entryWithin(h, r, p, statedRowCapacity)

\* A sealed map with a row filled to the capacity of layer 1, which is more
\* than baseRowLength << 1.
C8_Witness ==
  \E m \in memoMaps :
    /\ dbHas(db, filterMapKey(m))
    /\ \E r \in Rows :
          /\ Len(loadFilterMap(m)[r]) = rowCapacity(1)
          /\ Len(loadFilterMap(m)[r]) > statedRowCapacity(1)

(***************************************************************************)
(* C9.  Sealed maps are immutable: once map m has been persisted because   *)
(* the first log of map m + 1 arrived, no later IndexLogs call changes the *)
(* FilterMap or the LogData that the store and the caches hold for m.      *)
(***************************************************************************)
sealedUnchanged(m) ==
  /\ dbGet(db', filterMapKey(m)) = dbGet(db, filterMapKey(m))
  /\ dbGet(db', logDataKey(m)) = dbGet(db, logDataKey(m))
  /\ lruHas(filterMapCache, m)
       => lruHas(filterMapCache', m) /\ filterMapCache'[m] = filterMapCache[m]
  /\ lruHas(logDataCache, m)
       => lruHas(logDataCache', m) /\ logDataCache'[m] = logDataCache[m]

C9_SealedMapsImmutable ==
  [][\A m \in memoMaps : dbHas(db, filterMapKey(m)) => sealedUnchanged(m)]_vars

\* Map 0 was sealed by an earlier call, and a later call has added logs and
\* sealed a further map.
C9_Witness ==
  /\ Len(ingested) >= 2
  /\ Len(logsOfCalls(Len(ingested) - 1)) > valuesPerMap
  /\ ingested[Len(ingested)].logs # <<>>
  /\ Len(ingestedLogs) > Len(logsOfCalls(Len(ingested) - 1))
  /\ dbHas(db, filterMapKey(0))
  /\ dbHas(db, filterMapKey(mapOf(Len(ingestedLogs) - 1) - 1))
  /\ mapOf(Len(ingestedLogs) - 1) > mapOf(Len(logsOfCalls(Len(ingested) - 1)))

(***************************************************************************)
(* C10.  Map boundary crossing is lazy: after exactly valuesPerMap logs,   *)
(* nextMapID is still 0, logCounter and totalLogIndex are valuesPerMap and *)
(* map 0 is not sealed; one more log, ingested at block B, gives           *)
(* nextMapID = 1, logCounter = 1 and BlockLvPointer(B) = valuesPerMap.     *)
(***************************************************************************)
mapSealed(m) ==
  \/ dbHas(db, filterMapKey(m))
  \/ dbHas(db, logDataKey(m))
  \/ lruHas(filterMapCache, m)
  \/ lruHas(logDataCache, m)

lastCall == ingested[Len(ingested)]

C10_LazyBoundaryCrossing ==
  /\ Len(ingestedLogs) = valuesPerMap
       => /\ nextMapID = 0
          /\ logCounter = valuesPerMap
          /\ totalLogIndex = valuesPerMap
          /\ ~mapSealed(0)
  /\ (Len(ingestedLogs) = valuesPerMap + 1 /\ Len(lastCall.logs) = 1)
       => /\ nextMapID = 1
          /\ logCounter = 1
          /\ hasPointer(lastCall.blockNumber)
          /\ storedPointer(lastCall.blockNumber) = valuesPerMap
          /\ mapSealed(0)

\* valuesPerMap logs over two blocks, then one more log at the third block.
C10_Witness ==
  /\ Len(ingested) = 3
  /\ ingested[1].logs # <<>>
  /\ ingested[2].logs # <<>>
  /\ Len(logsOfCalls(2)) = valuesPerMap
  /\ Len(ingested[3].logs) = 1
  /\ nextMapID = 1
  /\ storedPointer(3) = valuesPerMap

(***************************************************************************)
(* C11.  Ingesting a block without logs changes only the pointer table:    *)
(* IndexLogs(b, []) stores BlockLvPointer(b) = totalLogIndex and leaves    *)
(* totalLogIndex, nextMapID, logCounter, latestBlock, the current          *)
(* FilterMap, the current LogData and all persisted maps unchanged.        *)
(***************************************************************************)
\* The step is an IndexLogs call for a block without logs.
emptyBlockStep ==
  /\ Len(ingested') = Len(ingested) + 1
  /\ ingested'[Len(ingested')].logs = <<>>

onlyPointerStored(b) ==
  /\ db' = dbSet(db, blockLvPointerKey(b), Uint64ToBigEndian(totalLogIndex))
  /\ lvPointerCache' = lruAdd(lvPointerCache, b, totalLogIndex)
  /\ \A key \in DOMAIN db' :
        key # blockLvPointerKey(b) => key \in DOMAIN db /\ db'[key] = db[key]

C11_EmptyBlockOnlyPointer ==
  [][emptyBlockStep
       => /\ onlyPointerStored(ingested'[Len(ingested')].blockNumber)
          /\ UNCHANGED <<totalLogIndex, nextMapID, logCounter, latestBlock,
                         currentMap, currentLogData, filterMapCache,
                         logDataCache>>]_vars

\* A block without logs ingested after a block that sealed a map: its
\* pointer is totalLogIndex and latestBlock still names the earlier block.
C11_Witness ==
  /\ Len(ingested) >= 2
  /\ lastCall.logs = <<>>
  /\ nextMapID > 0
  /\ currentMap # Nil
  /\ latestBlock < lastCall.blockNumber
  /\ storedPointer(lastCall.blockNumber) = totalLogIndex

(***************************************************************************)
(* C12.  A query over a range of ingested blocks that all have no logs     *)
(* returns an empty list for every address and topic filter, even when     *)
(* blocks before and after the range have logs (blocks 1 = [L1], 2 = [],   *)
(* 3 = [], 4 = [L2, L3]: the query (2, 3) returns []).                     *)
(***************************************************************************)
\* Block b was ingested, without logs.
ingestedEmpty(b) ==
  \E k \in 1..Len(ingested) :
    ingested[k].blockNumber = b /\ ingested[k].logs = <<>>

C12_EmptyRangeEmptyResult ==
  (query # Nil
   /\ \A b \in query.firstBlock..query.lastBlock : ingestedEmpty(b))
    => returned = {}

\* The ingestion of the example, queried over blocks 2..3 without a filter.
C12_Witness ==
  /\ Len(ingested) = 4
  /\ Len(ingested[1].logs) = 1
  /\ ingested[2].logs = <<>>
  /\ ingested[3].logs = <<>>
  /\ Len(ingested[4].logs) = 2
  /\ query # Nil
  /\ query.firstBlock = 2
  /\ query.lastBlock = 3
  /\ query.addresses = <<>>
  /\ query.topics = <<>>
  /\ returned = {}

(***************************************************************************)
(* C13.  Topic filters.  As stated: an empty list at topic position i      *)
(* never constrains the result (the same topics with an empty position i   *)
(* inserted or appended give the same result set), and the result set of a *)
(* query is a subset of that of the same query with its last non-empty     *)
(* topic position removed.                                                 *)
(* As the code has it: topics are matched by position, so an empty         *)
(* position appended after the last one gives the same result set and a    *)
(* position made empty never shrinks it, but an empty position inserted    *)
(* before a non-empty one moves that one to the next position and changes  *)
(* the result.                                                             *)
(***************************************************************************)
\* The result set of a query run in the current state.
resultSet(q) ==
  With(FindLogsByRange(q), LAMBDA r : UNION {r[1][k] : k \in 1..Len(r[1])})

insertAt(seq, i, x) ==
  SubSeq(seq, 1, i - 1) \o <<x>> \o SubSeq(seq, i, Len(seq))
removeAt(seq, i) == SubSeq(seq, 1, i - 1) \o SubSeq(seq, i + 1, Len(seq))

withTopics(q, topics) == [q EXCEPT !.topics = topics]

\* The non-empty positions of a topic filter.
nonEmptyPositions(topics) == {i \in 1..Len(topics) : topics[i] # <<>>}

\* The result is a subset of that of the query without its last non-empty
\* topic position.
narrowedByLastPosition ==
  nonEmptyPositions(query.topics) # {}
    => LET last == CHOOSE i \in nonEmptyPositions(query.topics) :
                     \A j \in nonEmptyPositions(query.topics) : j <= i
       IN  returned \subseteq resultSet(withTopics(query, removeAt(query.topics, last)))

C13_TopicWildcards ==
  (query # Nil /\ undisturbed)
    => /\ resultSet(withTopics(query, Append(query.topics, <<>>))) = returned
       /\ \A i \in 1..Len(query.topics) :
            returned
              \subseteq resultSet(withTopics(query, [query.topics EXCEPT ![i] = <<>>]))
       /\ narrowedByLastPosition

C13_TopicWildcardsAsStated ==
  (query # Nil /\ undisturbed)
    => /\ \A i \in 1..(Len(query.topics) + 1) :
            resultSet(withTopics(query, insertAt(query.topics, i, <<>>))) = returned
       /\ narrowedByLastPosition

\* A query with two non-empty topic positions that returns a log, while the
\* query without the second position returns more.
C13_Witness ==
  /\ query # Nil
  /\ undisturbed
  /\ Len(query.topics) = 2
  /\ query.topics[1] # <<>>
  /\ query.topics[2] # <<>>
  /\ returned # {}
  /\ resultSet(withTopics(query, Append(query.topics, <<>>))) = returned
  /\ resultSet(withTopics(query, removeAt(query.topics, 2))) # returned

(***************************************************************************)
(* A fifth specification: queries for one address and one topic over maps  *)
(* of more than one epoch, with a context that can be cancelled at any     *)
(* moment of the run.                                                      *)
(***************************************************************************)
MaxMatcherBlocks == 2
MaxMatcherLogsPerCall == 20
MaxMatcherLogs == 22

\* Blocks of a few logs and blocks filling the maps of more than one epoch.
BeginIngestEpochs ==
  /\ nextBlock <= MaxMatcherBlocks
  /\ \E n \in {MaxSparseLogsPerCall, MaxMatcherLogsPerCall} :
        /\ Len(ingestedLogs) + n <= MaxMatcherLogs
        /\ BeginIndexLogs(nextBlock, logBatch(0, n, nextBlock))

\* A query for one address and one topic at position 0.
StartFilters ==
  \E firstBlock \in 1..MaxMatcherBlocks, lastBlock \in 1..MaxMatcherBlocks,
     a \in Addresses, t \in Topics :
    /\ firstBlock <= lastBlock
    /\ StartQuery(newQuery(firstBlock, lastBlock, <<a>>, <<(<<t>>)>>))

NextMatcher ==
  \/ BeginIngestEpochs
  \/ IngesterLoops
  \/ IngesterReturns
  \/ StartFilters
  \/ Dispatch
  \/ ProcessEpochs
  \/ GetFilterMaps
  \/ GetLogDatas
  \/ MatchAddresses
  \/ MatchTopics
  \/ VerifyMatches
  \/ WorkerExit
  \/ Collect
  \/ Cancel
  \/ ObserveCancel
  \/ Join
  \/ Return

SpecMatcher == Init /\ [][NextMatcher]_vars

(***************************************************************************)
(* C14.  Pointers survive a restart: an indexer created over the KV store  *)
(* of an earlier one finds, for every block the earlier one was given, the *)
(* pointer the earlier one returned, and finds it without error.           *)
(***************************************************************************)
ingestedBlocks == {ingested[k].blockNumber : k \in 1..Len(ingested)}

restartStep == restarts' = restarts + 1

pointerKept(b) ==
  /\ getBlockLvPointer(lvPointerCache', db', b)[2]
  /\ getBlockLvPointer(lvPointerCache', db', b)[1]
       = getBlockLvPointer(lvPointerCache, db, b)[1]

C14_PointersSurviveRestart ==
  [][restartStep
       => \A b \in ingestedBlocks :
            /\ getBlockLvPointer(lvPointerCache, db, b)[2]
            /\ pointerKept(b)]_vars

\* A new indexer, its pointer cache still empty, over a store with the
\* pointers of three blocks, the later ones past the first map.
C14_Witness ==
  /\ restarts = 1
  /\ Len(ingested) = 3
  /\ lvPointerCache = <<>>
  /\ \A b \in ingestedBlocks : getBlockLvPointer(lvPointerCache, db, b)[2]
  /\ getBlockLvPointer(lvPointerCache, db, 2)[1] = Len(logsOfCalls(1))
  /\ getBlockLvPointer(lvPointerCache, db, 3)[1] = Len(logsOfCalls(2))
  /\ Len(logsOfCalls(1)) > valuesPerMap
  /\ Len(logsOfCalls(2)) > Len(logsOfCalls(1))

(***************************************************************************)
(* C15.  Query round trip across a restart: a query answered by an indexer *)
(* is answered with the same logs by an indexer created afterwards over    *)
(* the same KV store.                                                      *)
(***************************************************************************)
replayed == UNION {replay.result[k] : k \in 1..Len(replay.result)}

\* No IndexLogs call has begun since the query was made the first time.
undisturbedSince == Len(ingested) = replay.calls

C15_QueryRoundTripAcrossRestart ==
  (replay.done /\ undisturbedSince) => replayed = returned

(***************************************************************************)
(* C16.  Crash recovery of the cursor: an indexer created over a store     *)
(* that holds indexed data starts with the nextMapID, latestBlock and      *)
(* totalLogIndex of the indexer that wrote the store; the pointers of the  *)
(* blocks ingested afterwards continue after the earlier ones, and a map   *)
(* that was sealed is never written again.                                 *)
(***************************************************************************)
cursorRestored ==
  /\ nextMapID' = nextMapID
  /\ latestBlock' = latestBlock
  /\ totalLogIndex' = totalLogIndex

pointersContinue ==
  \A b1, b2 \in ingestedBlocks :
    b1 < b2 => getBlockLvPointer(lvPointerCache', db', b1)[1]
                 <= getBlockLvPointer(lvPointerCache', db', b2)[1]

storedMapKept(m) ==
  /\ dbGet(db', filterMapKey(m)) = dbGet(db, filterMapKey(m))
  /\ dbGet(db', logDataKey(m)) = dbGet(db, logDataKey(m))

sealedMapsKept == \A m \in memoMaps : dbHas(db, filterMapKey(m)) => storedMapKept(m)

C16_CursorRecovery ==
  [][/\ restartStep => cursorRestored
     /\ pointersContinue
     /\ sealedMapsKept]_vars

(***************************************************************************)
(* C17.  Epoch order of the output: whatever the interleaving of the       *)
(* workers, the list a successful query returns is the lists of the epochs *)
(* put together in ascending epoch index, so that no log of a later epoch  *)
(* precedes a log of an earlier one, also when the later epoch was         *)
(* processed first.                                                        *)
(***************************************************************************)
successful == run.pc = "returned" /\ ~run.err

epochOf(lvIndex) == Shr(Shr(lvIndex, logValuesPerMap), logMapsPerEpoch)

\* The lists the workers stored for the epochs from epochIndex on.
RECURSIVE epochLists(_)
epochLists(epochIndex) ==
  IF epochIndex > run.lastEpoch THEN <<>>
  ELSE (IF epochIndex \in DOMAIN run.results THEN run.results[epochIndex]
        ELSE <<>>) \o epochLists(epochIndex + 1)

C17_EpochOrder ==
  successful
    => /\ run.logs = epochLists(run.firstEpoch)
       /\ \A i, j \in 1..Len(run.logs) :
             i < j => epochOf(run.logs[i].lvIndex) <= epochOf(run.logs[j].lvIndex)

\* A query over two epochs with matches in both has returned, and the
\* worker of epoch 1 had finished before the worker of epoch 0.
C17_Witness ==
  /\ successful
  /\ DOMAIN run.finished = {0, 1}
  /\ run.firstFinished = 1
  /\ run.results[0] # <<>>
  /\ run.results[1] # <<>>
  /\ result # <<>>

(***************************************************************************)
(* C18.  Deterministic ordered results: a successful query returns its     *)
(* logs in one order only, whatever the scheduling: the epochs ascending,  *)
(* within an epoch the maps ascending, within a map the logs in ascending  *)
(* lv_index.  The returned list is then ascending in lv_index throughout.  *)
(***************************************************************************)
C18_DeterministicOrder ==
  successful
    => \A i, j \in 1..Len(run.logs) :
         i < j => run.logs[i].lvIndex < run.logs[j].lvIndex

(***************************************************************************)
(* C19.  Workers are joined before return: when FindLogsByRange has        *)
(* returned, with logs or with the cancellation error, no worker is at the *)
(* receive or inside processEpoch; every worker spawned has exited.        *)
(***************************************************************************)
C19_WorkersJoined ==
  run.pc = "returned"
    => /\ run.workers.receiving = 0
       /\ run.workers.processing = {}
       /\ run.workers.exited \in {0, NumWorkers}
       /\ run.tasks # <<>> => run.workers.exited = NumWorkers

\* The query has returned the cancellation error with a task dispatched and
\* processed but never collected, and the four workers have exited.
C19_Witness ==
  /\ run.pc = "returned"
  /\ run.err
  /\ run.workers.exited = NumWorkers
  /\ run.startEpoch > run.waitEpoch
  /\ run.waitEpoch \in DOMAIN run.tasks
  /\ run.tasks[run.waitEpoch].done

(***************************************************************************)
(* C20.  Cancellation: once the context is cancelled while the coordinator *)
(* is in its loop, the coordinator sends no further epoch task to a worker *)
(* and the query returns the cancellation error, never a list of logs.     *)
(***************************************************************************)
cancelledInLoop == run.pc = "select" /\ run.cancelled

epochTaskSent ==
  /\ run.startEpoch <= run.lastEpoch
  /\ run'.startEpoch = run.startEpoch + 1

C20_Cancellation ==
  [][cancelledInLoop
       => /\ ~epochTaskSent
          /\ run'.pc = "closing" => run'.err]_vars

(***************************************************************************)
(* What getLogIndexRange returns for the block ranges a caller can ask.    *)
(***************************************************************************)
BlockRanges ==
  {r \in QueryBlocks \X QueryBlocks : r[1] <= r[2]}

\* The pointer lookup of getLogIndexRange succeeds for block b.
pointerFound(b) == getBlockLvPointer(lvPointerCache, db, b)[2]
pointerOf(b) == getBlockLvPointer(lvPointerCache, db, b)[1]

\* lastBlock after the clamp to latestBlock.
clampedLast(lastBlock) == IF lastBlock > latestBlock THEN latestBlock ELSE lastBlock

\* The block of the latest IndexLogs call.
latestIngestedBlock == IF ingested = <<>> THEN 0 ELSE lastCall.blockNumber

(***************************************************************************)
(* C27.  Index range resolution: getLogIndexRange(first, last) clamps last *)
(* to latestBlock and, when BlockLvPointer(first) and                      *)
(* BlockLvPointer(last + 1) are both stored, returns                       *)
(* (BlockLvPointer(first), BlockLvPointer(last + 1) - 1); when first is    *)
(* indexed and last is the latest ingested block it returns                *)
(* (BlockLvPointer(first), totalLogIndex - 1), e.g. (0, 4) after blocks    *)
(* 1..3 with 3, 0 and 2 logs.  Where the value to be decremented is 0      *)
(* there is no index before it and nothing is stated.                      *)
(***************************************************************************)
rangeFromPointers(r) ==
  (pointerFound(r[1]) /\ pointerFound(clampedLast(r[2]) + 1)
   /\ pointerOf(clampedLast(r[2]) + 1) > 0)
    => /\ getLogIndexRange(r[1], r[2])[1] = pointerOf(r[1])
       /\ getLogIndexRange(r[1], r[2])[2] = pointerOf(clampedLast(r[2]) + 1) - 1

rangeUpToLatest(r) ==
  (pointerFound(r[1]) /\ ingested # <<>> /\ r[2] = latestIngestedBlock
   /\ totalLogIndex > 0)
    => /\ getLogIndexRange(r[1], r[2])[1] = pointerOf(r[1])
       /\ getLogIndexRange(r[1], r[2])[2] = totalLogIndex - 1

C27_IndexRangeResolution ==
  \A r \in BlockRanges : rangeFromPointers(r) /\ rangeUpToLatest(r)

\* The first half of C27 alone, and the example of its second half.
C27_RangeFromPointers == \A r \in BlockRanges : rangeFromPointers(r)

C27_Example ==
  (/\ Len(ingested) = 3
   /\ \A k \in 1..3 : ingested[k].blockNumber = k
   /\ Len(ingested[1].logs) = 3
   /\ Len(ingested[2].logs) = 0
   /\ Len(ingested[3].logs) = 2)
    => /\ getLogIndexRange(1, 3)[1] = 0
       /\ getLogIndexRange(1, 3)[2] = 4

(***************************************************************************)
(* C28.  The index range bounds the block range: for every query range     *)
(* [first, last] with first <= last and every ingested log whose block     *)
(* lies in [first, last], the log's global index lies in                   *)
(* [firstIndex, lastIndex] as getLogIndexRange returns them, so its map    *)
(* lies in [firstMap, lastMap] and is scanned; also when a pointer lookup  *)
(* fails and the estimate is substituted.                                  *)
(***************************************************************************)
logsOfRange(r) ==
  {i \in LogIndices : /\ ingestedLogs[i + 1].BlockNumber >= r[1]
                      /\ ingestedLogs[i + 1].BlockNumber <= r[2]}

C28_IndexRangeBoundsBlocks ==
  \A r \in BlockRanges :
    \A i \in logsOfRange(r) :
      /\ getLogIndexRange(r[1], r[2])[1] <= i
      /\ i <= getLogIndexRange(r[1], r[2])[2]
      /\ mapOf(getLogIndexRange(r[1], r[2])[1]) <= mapOf(i)
      /\ mapOf(i) <= mapOf(getLogIndexRange(r[1], r[2])[2])

(***************************************************************************)
(* C29.  Estimates are bounded: whenever getLogIndexRange substitutes an   *)
(* estimate for a missing pointer, the value substituted is                *)
(* min(block * 10, totalLogIndex), so neither firstIndex nor lastIndex as  *)
(* returned exceeds totalLogIndex.                                         *)
(***************************************************************************)
boundedEstimate(b) == Min(b * EstimatedLogsPerBlock, totalLogIndex)

C29_EstimatesBounded ==
  \A r \in BlockRanges :
    /\ ~pointerFound(r[1])
         => getLogIndexRange(r[1], r[2])[1] = boundedEstimate(r[1])
    /\ (~pointerFound(clampedLast(r[2]) + 1)
        /\ boundedEstimate(clampedLast(r[2]) + 1) > 0)
         => getLogIndexRange(r[1], r[2])[2]
              = boundedEstimate(clampedLast(r[2]) + 1) - 1
    /\ getLogIndexRange(r[1], r[2])[1] <= totalLogIndex
    /\ getLogIndexRange(r[1], r[2])[2] <= totalLogIndex

\* The part of C29 about lastIndex alone.
C29_LastIndexBounded ==
  \A r \in BlockRanges :
    /\ (~pointerFound(clampedLast(r[2]) + 1)
        /\ boundedEstimate(clampedLast(r[2]) + 1) > 0)
         => getLogIndexRange(r[1], r[2])[2]
              = boundedEstimate(clampedLast(r[2]) + 1) - 1
    /\ getLogIndexRange(r[1], r[2])[2] <= totalLogIndex

(***************************************************************************)
(* C30.  Early-out guarantee of row collection: in every state a map goes  *)
(* through, and for every value v, if the row at rowIndex(m, l, v) is      *)
(* absent or holds fewer than maxRowLength(l) entries, then no column      *)
(* entry for v was placed in map m at a layer greater than l; hence        *)
(* getRowsForValue, which stops at the first such layer, collects every    *)
(* row that holds an entry for v.                                          *)
(***************************************************************************)
\* The values AddLogToMap adds for a log, in the order it adds them.
valueSeqOf(log) ==
  <<addressValue(log.Address)>>
    \o [k \in 1..Len(log.Topics) |-> topicValue(log.Topics[k])]

\* The global indices of the ingested logs of map m.
indicesOfMap(m) == {i \in LogIndices : mapOf(i) = m}

\* The addValue calls that built map m: <<global index, value>> in the order
\* of the calls, those of the logs from index i on.
RECURSIVE addValueCallsFrom(_, _)
addValueCallsFrom(m, i) ==
  IF i \notin indicesOfMap(m) THEN <<>>
  ELSE [k \in 1..Len(valueSeqOf(ingestedLogs[i + 1])) |->
          <<i, valueSeqOf(ingestedLogs[i + 1])[k]>>]
         \o addValueCallsFrom(m, i + 1)

addValueCalls(m) == addValueCallsFrom(m, Shl(m, logValuesPerMap))

\* The row of value v at layer l is absent or not full.
rowShort(fm, m, l, v) == Len(fm[rowIndex(m, l, v)]) < maxRowLength(l)

\* The layer an addValue call for v placed its entry at, the map being before
\* before the call and after after it: the first layer whose row took the entry
\* and had room for it.
placedLayer(before, after, m, v) ==
  CHOOSE l \in Layers :
    /\ after[rowIndex(m, l, v)] # before[rowIndex(m, l, v)]
    /\ rowShort(before, m, l, v)
    /\ \A k \in 0..(l - 1) :
          ~(after[rowIndex(m, k, v)] # before[rowIndex(m, k, v)]
            /\ rowShort(before, m, k, v))

\* placed holds <<v, l>> for every entry placed so far.
earlyOut(fm, m, placed) ==
  \A v \in LogValues :
    /\ \A l \in Layers :
          rowShort(fm, m, l, v) => \A p \in placed : p[1] = v => p[2] <= l
    /\ \A p \in placed :
          p[1] = v
            => /\ Len(getRowsForValue(fm, m, v)) > p[2]
               /\ getRowsForValue(fm, m, v)[p[2] + 1] = fm[rowIndex(m, p[2], v)]

\* The map m after the addValue calls from the k-th on, with the guarantee
\* checked in every state on the way.
RECURSIVE builtFrom(_, _, _, _, _)
builtFrom(fm, placed, m, calls, k) ==
  IF ~earlyOut(fm, m, placed) THEN [ok |-> FALSE, fm |-> fm, placed |-> placed]
  ELSE IF k > Len(calls) THEN [ok |-> TRUE, fm |-> fm, placed |-> placed]
  ELSE With(addValue(fm, m, calls[k][1], calls[k][2]),
            LAMBDA after :
              With(placed \cup {<<calls[k][2],
                                  placedLayer(fm, after, m, calls[k][2])>>},
                   LAMBDA all : builtFrom(after, all, m, calls, k + 1)))

built(m) ==
  With(addValueCalls(m),
       LAMBDA calls : builtFrom(NewFilterMap, {}, m, calls, 1))

\* The maps that hold an ingested log.
usedMaps == {mapOf(i) : i \in LogIndices}

C30_EarlyOutGuarantee ==
  \A m \in usedMaps :
    With(built(m),
         LAMBDA b :
           /\ b.ok
           /\ getFilterMap(filterMapCache, m)[1] = b.fm
           /\ m < nextMapID => loadFilterMap(m) = b.fm)

\* A sealed map in which one value has an entry at layer 1 or above, found by
\* getRowsForValue past the full row of layer 0, the collection stopping at a
\* row that is not full; and a map that another value is not in, its row of
\* layer 0 being absent.
C30_Witness ==
  /\ \E m \in usedMaps :
        /\ m < nextMapID
        /\ \E p \in built(m).placed :
              /\ p[2] >= 1
              /\ Len(getRowsForValue(loadFilterMap(m), m, p[1])) = p[2] + 1
              /\ rowShort(loadFilterMap(m), m, p[2], p[1])
              /\ ~rowShort(loadFilterMap(m), m, 0, p[1])
              /\ \A q \in built(m).placed : q[1] = p[1] => q[2] <= p[2]
  /\ \E m \in usedMaps, v \in LogValues :
        /\ built(m).fm[rowIndex(m, 0, v)] = <<>>
        /\ getRowsForValue(built(m).fm, m, v) = <<>>
        /\ \A p \in built(m).placed : p[1] # v

(***************************************************************************)
(* Specifications of a KV store that fails: Set fails on the keys of some  *)
(* sealed maps or of their LogData (indexer.go:167, 171), or Get fails on  *)
(* them (indexer.go:179, 191).                                             *)
(***************************************************************************)
MaxFaultMaps == 2

\* The keys of the first maps and of their LogData.
FaultKeys ==
  {filterMapKey(m) : m \in 0..(MaxFaultMaps - 1)}
    \cup {logDataKey(m) : m \in 0..(MaxFaultMaps - 1)}

\* From now on Set fails on some of the keys.
FailWrites ==
  /\ faults = noFaults
  /\ \E keys \in SUBSET FaultKeys :
        /\ keys # {}
        /\ faults' = [faults EXCEPT !.set = keys]
  /\ UNCHANGED <<db, indexerVars, ingested, query, result, restartVars, run,
                 enabled, refused, threadVars>>

NextWriteFaults == IngestBatch \/ FailWrites

SpecWriteFaults == Init /\ [][NextWriteFaults]_vars

\* From now on Get fails on some of the keys.
FailReads ==
  /\ faults = noFaults
  /\ query = Nil
  /\ run.pc = "idle"
  /\ \E keys \in SUBSET {filterMapKey(0), logDataKey(0)} :
        /\ keys # {}
        /\ faults' = [faults EXCEPT !.get = keys]
  /\ UNCHANGED <<db, indexerVars, ingested, query, result, restartVars, run,
                 enabled, refused, threadVars>>

NextReadFaults ==
  \/ BeginIngestBatch
  \/ IngesterLoops
  \/ IngesterReturns
  \/ Restart
  \/ FailReads
  \/ QueryAddress
  \/ Dispatch
  \/ ProcessEpochs
  \/ GetFilterMaps
  \/ GetLogDatas
  \/ MatchAddresses
  \/ VerifyMatches
  \/ Collect
  \/ WorkerExit
  \/ Join
  \/ Return

SpecReadFaults == Init /\ [][NextReadFaults]_vars

(***************************************************************************)
(* C24.  A read failure aborts the query: when loading a sealed FilterMap  *)
(* or LogData on a cache miss fails, FindLogsByRange returns an error      *)
(* instead of a result list that silently omits the logs of that map.      *)
(***************************************************************************)
\* The query has returned an error.
queryFailed == run.pc = "returned" /\ run.err

\* The maps the query scanned.
scannedMaps(q) ==
  IF getLogIndexRange(q.firstBlock, q.lastBlock)[1]
       > getLogIndexRange(q.firstBlock, q.lastBlock)[2]
  THEN {}
  ELSE mapOf(getLogIndexRange(q.firstBlock, q.lastBlock)[1])
         ..mapOf(getLogIndexRange(q.firstBlock, q.lastBlock)[2])

\* Map m is in the store, and the query had to load it, or its LogData, from
\* there and could not.
loadFailed(m) ==
  /\ ~(m = nextMapID /\ currentMap # Nil)
  /\ dbHas(db, filterMapKey(m))
  /\ dbHas(db, logDataKey(m))
  /\ \/ ~lruHas(filterMapCache, m) /\ filterMapKey(m) \in faults.get
     \/ ~lruHas(logDataCache, m) /\ logDataKey(m) \in faults.get

\* The logs of the stored map m the query asks for, with their indices.
storedWanted(q, m) ==
  LET logs == unmarshalLogData(dbGet(db, logDataKey(m))).Logs
  IN  {[lvIndex |-> Shl(m, logValuesPerMap) + k - 1, log |-> logs[k]] :
         k \in {j \in 1..Len(logs) : wanted(q, logs[j])}}

C24_ReadFailureAbortsQuery ==
  (query # Nil /\ undisturbed)
    => \A m \in scannedMaps(query) :
         loadFailed(m)
           => \/ queryFailed
              \/ storedWanted(query, m) \subseteq returned

\* The same for the maps the query could load.
C24_LoadedMapsReturned ==
  (query # Nil /\ undisturbed)
    => \A m \in scannedMaps(query) :
         (dbHas(db, filterMapKey(m)) /\ dbHas(db, logDataKey(m))
          /\ ~(m = nextMapID /\ currentMap # Nil) /\ ~loadFailed(m))
           => storedWanted(query, m) \subseteq returned

(***************************************************************************)
(* C26.  Best-effort pointer write: IndexLogs returns no error to its      *)
(* caller, and when the write of a sealed map or of its LogData to the KV  *)
(* store fails, the call still advances the cursor and still writes        *)
(* BlockLvPointer(b) for the block being ingested.                         *)
(***************************************************************************)
\* The step is an IndexLogs call of an enabled indexer.
ingestStep == Len(ingested') = Len(ingested) + 1

cursorAdvanced(call) ==
  /\ totalLogIndex' = totalLogIndex + Len(call.logs)
  /\ nextMapID' * LogsPerMap + logCounter' = totalLogIndex'
  /\ logCounter' <= LogsPerMap
  /\ call.logs # <<>> => latestBlock' = call.blockNumber /\ logCounter' >= 1
  /\ \A m \in nextMapID..(nextMapID' - 1) :
        lruHas(filterMapCache', m) /\ lruHas(logDataCache', m)

pointerWritten(call) ==
  /\ dbHas(db', blockLvPointerKey(call.blockNumber))
  /\ dbGet(db', blockLvPointerKey(call.blockNumber))
       = Uint64ToBigEndian(totalLogIndex)
  /\ lruHas(lvPointerCache', call.blockNumber)
  /\ lvPointerCache'[call.blockNumber] = totalLogIndex

C26_BestEffortPointerWrite ==
  [][ingestStep
       => /\ cursorAdvanced(ingested'[Len(ingested')])
          /\ pointerWritten(ingested'[Len(ingested')])]_vars

\* The write of map 0 has failed: the map is sealed in the cache and absent
\* from the store, the cursor is in a later map, and the pointer of the block
\* whose logs filled map 0 is stored.
C26_Witness ==
  /\ filterMapKey(0) \in faults.set
  /\ lruHas(filterMapCache, 0)
  /\ ~dbHas(db, filterMapKey(0))
  /\ nextMapID >= 1
  /\ totalLogIndex = Len(ingestedLogs)
  /\ Len(ingested) >= 2
  /\ Len(lastCall.logs) > 0
  /\ hasPointer(lastCall.blockNumber)
  /\ storedPointer(lastCall.blockNumber) = Len(logsOfCalls(Len(ingested) - 1))
  /\ storedPointer(lastCall.blockNumber) < LogsPerMap

(***************************************************************************)
(* A specification of concurrent pointer lookups (indexer_test.go:250-276):*)
(* once the blocks are ingested, goroutines call getBlockLvPointer for     *)
(* every block, one block after the other.  A call is up to three steps:   *)
(* the Get of the pointer cache (indexer.go:208), the Get of the store     *)
(* (213) and the Add to the pointer cache (219); lru.Cache and the store   *)
(* guard each of their operations with a lock of their own, so each of the *)
(* steps is atomic and the steps of different goroutines interleave.  The  *)
(* lookups may run on the indexer that ingested the blocks or on one       *)
(* created over its store afterwards, whose pointer cache starts empty.    *)
(***************************************************************************)
NumLookups == 2

LookupIds == 1..NumLookups

newLookup == [pc |-> "cache", block |-> 1, data |-> <<>>, results |-> <<>>]

\* getBlockLvPointer returns: the result is noted and the goroutine goes on
\* to the next block.
lookupReturned(l, found, hit, value) ==
  [l EXCEPT
     !.results = Append(@, [block |-> l.block, found |-> found, hit |-> hit,
                            value |-> value]),
     !.data = <<>>,
     !.block = @ + 1,
     !.pc = IF l.block + 1 > MaxRestartBlocks THEN "done" ELSE "cache"]

lookupUnchanged ==
  UNCHANGED <<db, latestBlock, nextMapID, totalLogIndex, filterMapCache,
              logDataCache, currentMap, currentLogData, logCounter, ingested,
              query, result, restartVars, run, envVars, mu, writers,
              calc>>

IngestBeforeLookups == lookups = noLookups /\ IngestBatch

\* The indexer that ingested the blocks is replaced by a new one.
RestartBeforeLookups ==
  /\ lookups = noLookups
  /\ nextBlock > MaxRestartBlocks
  /\ Restart

\* indexer_test.go:265-274: the goroutines are started.
StartLookups ==
  /\ lookups = noLookups
  /\ nextBlock > MaxRestartBlocks
  /\ lookups' = [t \in LookupIds |-> newLookup]
  /\ UNCHANGED lvPointerCache
  /\ lookupUnchanged

\* indexer.go:208-210
LookupCache(t) ==
  /\ lookups # noLookups
  /\ lookups[t].pc = "cache"
  /\ lookups' =
       [lookups EXCEPT
          ![t] = IF lruHas(lvPointerCache, @.block)
                 THEN lookupReturned(@, TRUE, TRUE, lvPointerCache[@.block])
                 ELSE [@ EXCEPT !.pc = "get"]]
  /\ UNCHANGED lvPointerCache
  /\ lookupUnchanged

\* indexer.go:212-216
LookupGet(t) ==
  /\ lookups # noLookups
  /\ lookups[t].pc = "get"
  /\ \E data \in {dbRead(db, blockLvPointerKey(lookups[t].block))} :
        lookups' =
          [lookups EXCEPT
             ![t] = IF Len(data) = 0 THEN lookupReturned(@, FALSE, FALSE, 0)
                    ELSE [@ EXCEPT !.pc = "add", !.data = data]]
  /\ UNCHANGED lvPointerCache
  /\ lookupUnchanged

\* indexer.go:218-220
LookupAdd(t) ==
  /\ lookups # noLookups
  /\ lookups[t].pc = "add"
  /\ \E lvPointer \in {BigEndianToUint64(lookups[t].data)} :
        /\ lvPointerCache' = lruAdd(lvPointerCache, lookups[t].block, lvPointer)
        /\ lookups' = [lookups EXCEPT
                         ![t] = lookupReturned(@, TRUE, FALSE, lvPointer)]
  /\ lookupUnchanged

NextLookups ==
  \/ IngestBeforeLookups
  \/ RestartBeforeLookups
  \/ StartLookups
  \/ \E t \in LookupIds : LookupCache(t)
  \/ \E t \in LookupIds : LookupGet(t)
  \/ \E t \in LookupIds : LookupAdd(t)

SpecLookups == Init /\ [][NextLookups]_vars

(***************************************************************************)
(* C23.  Concurrent pointer readers: after the ingestion of blocks 1..N    *)
(* has finished, any number of readers calling getBlockLvPointer(b) for b  *)
(* in 1..N concurrently all get no error and the pointer that ingestion    *)
(* stored for b, whatever the interleaving of cache hits, cache misses and *)
(* cache insertions.                                                       *)
(***************************************************************************)
\* The lookups noted so far, of all goroutines.
lookupResults ==
  IF lookups = noLookups THEN {}
  ELSE UNION {Range(lookups[t].results) : t \in LookupIds}

C23_ConcurrentPointerReaders ==
  \A r \in lookupResults :
    /\ r.block \in ingestedBlocks
    /\ r.found
    /\ Uint64ToBigEndian(r.value) = dbGet(db, blockLvPointerKey(r.block))
    /\ r.value = Len(logsOfCalls(r.block - 1))

\* Both goroutines are through all blocks on an indexer created over the
\* store; both missed the cache on block 1 and inserted its pointer, one
\* after the other, and a later lookup hit the cache; the pointers differ.
C23_Witness ==
  /\ lookups # noLookups
  /\ restarts = 1
  /\ \A t \in LookupIds :
        /\ lookups[t].pc = "done"
        /\ Len(lookups[t].results) = MaxRestartBlocks
        /\ ~lookups[t].results[1].hit
  /\ \E r \in lookupResults : r.hit
  /\ \E r \in lookupResults : r.value > LogsPerMap

(***************************************************************************)
(* A specification of concurrent IndexLogs calls (indexer.go:70-133): two  *)
(* goroutines call IndexLogs step by step.  The callers hand over the      *)
(* blocks in ascending order, but which of two calls gets the mutex first  *)
(* is open.                                                                *)
(***************************************************************************)
NextWriters ==
  \/ \E t \in WriterIds : CallIndexLogs(t)
  \/ \E t \in WriterIds : LockAndBegin(t)
  \/ \E t \in WriterIds : LoopStep(t)
  \/ \E t \in WriterIds : FinishAndUnlock(t)

SpecWriters == Init /\ [][NextWriters]_vars

(***************************************************************************)
(* C21.  Concurrent IndexLogs calls are serialized: under any interleaving *)
(* of concurrent callers each call's logs receive a contiguous range of    *)
(* global indices, no two logs receive the same index, and the final       *)
(* totalLogIndex is the total number of logs ingested, exactly as in some  *)
(* sequential order of the calls.                                          *)
(***************************************************************************)
\* The calls that are through, and those in the loop, of all goroutines.
finishedCalls ==
  UNION {Range(writers[t].calls) : t \in WriterIds}

runningCalls ==
  {writers[t].call : t \in {u \in WriterIds : writers[u].pc \in {"loop", "return"}}}

\* The indices of a call so far are blockFirstIndex, blockFirstIndex + 1, ...
contiguous(call) ==
  \A j \in 1..Len(call.assigned) :
    call.assigned[j] = call.blockFirstIndex + j - 1

allWritersIdle ==
  /\ \A t \in WriterIds : writers[t].pc = "idle"

\* The state is the one the calls leave when made one after the other, in
\* the order of ingested.
asInSequence ==
  /\ totalLogIndex = Len(ingestedLogs)
  /\ nextMapID * LogsPerMap + logCounter = totalLogIndex
  /\ \A k \in 1..Len(ingested) :
        /\ hasPointer(ingested[k].blockNumber)
        /\ storedPointer(ingested[k].blockNumber) = Len(logsOfCalls(k - 1))
        /\ \E c \in finishedCalls :
              /\ c.blockNumber = ingested[k].blockNumber
              /\ c.logs = ingested[k].logs
              /\ c.blockFirstIndex = Len(logsOfCalls(k - 1))
              /\ Len(c.assigned) = Len(c.logs)
  /\ \A i \in LogIndices :
        holdsAt(getLogData(logDataCache, mapOf(i))[1], i)

C21_ConcurrentCallsSerialized ==
  /\ \A c \in finishedCalls \cup runningCalls : contiguous(c)
  /\ \A c, d \in finishedCalls \cup runningCalls :
        c.blockNumber # d.blockNumber
          => Range(c.assigned) \cap Range(d.assigned) = {}
  /\ mu.writer = 0 => totalLogIndex = Len(ingestedLogs)
  /\ allWritersIdle => asInSequence

\* Three calls are through; block 2 got the mutex before block 1, while the
\* call for block 1 was waiting, and the logs went past the first map.
C21_Witness ==
  /\ allWritersIdle
  /\ Len(ingested) = MaxWriterBlocks
  /\ ingested[1].blockNumber = 2
  /\ ingested[2].blockNumber = 1
  /\ ingested[1].logs # <<>>
  /\ ingested[2].logs # <<>>
  /\ totalLogIndex > LogsPerMap
  /\ \E c \in finishedCalls : c.blockNumber = 1 /\ c.blockFirstIndex > 0

(***************************************************************************)
(* C22.  A query running concurrently with IndexLogs returns the matching  *)
(* logs of a prefix of the ingestion order consistent with one             *)
(* serialization point: there is a cut index c such that the result is     *)
(* exactly the matching logs with lv_index < c; it never contains a        *)
(* matching log while omitting a matching log with a smaller lv_index in   *)
(* the queried block range, and it never reads the in-flight map or its    *)
(* LogData while IndexLogs is writing them.                                *)
(***************************************************************************)
queryDone == query # Nil /\ run.pc = "returned"

\* The result is the matching logs below a cut.
resultIsPrefix ==
  \E c \in 0..Len(ingestedLogs) :
    returned = {e \in expected(query) : e.lvIndex < c}

noGapInResult ==
  \A e \in returned, d \in expected(query) :
    d.lvIndex < e.lvIndex => d \in returned

\* An IndexLogs call is in its loop, and its next iteration writes the
\* current map and its LogData (indexer.go:118-126).
writingMap(mapIndex) ==
  /\ \E t \in WriterIds : writers[t].pc = "loop"
  /\ mapIndex = nextMapID
  /\ logCounter < LogsPerMap

\* A worker is in processMap, past getLogData, with the map and the LogData
\* the loop is writing.
readsWhileWritten ==
  /\ run.pc \in {"select", "closing"}
  /\ \E e \in run.workers.processing :
        /\ run.work[e].pc \in {"addresses", "logs", "topics", "verify"}
        /\ run.work[e].fm.shared
        /\ run.work[e].logData.shared
        /\ writingMap(run.work[e].mapIndex)

C22_ConcurrentQueryPrefix ==
  /\ queryDone => (resultIsPrefix /\ noGapInResult)
  /\ ~readsWhileWritten

\* C22, the part about the result alone: what a query returns is the
\* matching logs below a cut.  A query that reads the rows of one address
\* before and those of another after an iteration of the loop returns a log
\* above one it leaves out.
C22_ResultIsPrefix ==
  queryDone => (resultIsPrefix /\ noGapInResult)

(***************************************************************************)
(* The entries of a map with the addValue call that placed each: the map   *)
(* is built again from the ingested logs, call by call, and every call is  *)
(* compared with the map before it.                                        *)
(***************************************************************************)
\* The rows an addValue call changed.
changedRows(before, after) == {r \in Rows : after[r] # before[r]}

\* The layers at which the call for v can have appended: the row of the
\* layer is the changed one and had room for that layer, and no layer below
\* had room.
placedLayers(before, after, m, v) ==
  {l \in Layers :
     /\ rowIndex(m, l, v) \in changedRows(before, after)
     /\ rowShort(before, m, l, v)
     /\ \A k \in 0..(l - 1) : ~rowShort(before, m, k, v)}

\* The entry of a call: the log's index i, the value v, the layer l, the row
\* r and the position p (from 1) of the entry in the row.
placement(before, after, m, i, v) ==
  {[i |-> i, v |-> v, l |-> l, r |-> rowIndex(m, l, v),
    p |-> Len(after[rowIndex(m, l, v)])] :
     l \in placedLayers(before, after, m, v)}

\* A call appends one entry, columnIndex(i, v), to one row, at one layer.
appendedOnce(before, after, m, i, v) ==
  /\ Cardinality(changedRows(before, after)) = 1
  /\ Cardinality(placement(before, after, m, i, v)) = 1
  /\ \A r \in changedRows(before, after) :
        after[r] = Append(before[r], columnIndex(i, v))

\* The map m after the addValue calls from the k-th on, with the entries
\* placed; ok is false if a call did not append once.
RECURSIVE placedFrom(_, _, _, _, _)
placedFrom(fm, placed, m, calls, k) ==
  IF k > Len(calls) THEN [ok |-> TRUE, fm |-> fm, placed |-> placed]
  ELSE With(addValue(fm, m, calls[k][1], calls[k][2]),
            LAMBDA after :
              IF ~appendedOnce(fm, after, m, calls[k][1], calls[k][2])
              THEN [ok |-> FALSE, fm |-> after, placed |-> placed]
              ELSE With(placed \cup placement(fm, after, m, calls[k][1],
                                              calls[k][2]),
                        LAMBDA all : placedFrom(after, all, m, calls, k + 1)))

placedIn(m) ==
  With(addValueCalls(m),
       LAMBDA calls : placedFrom(NewFilterMap, {}, m, calls, 1))

(***************************************************************************)
(* C31.  Layer capacity and entry position: an entry placed for value v at *)
(* layer l is appended only when its row holds fewer than maxRowLength(l)  *)
(* entries, so it sits at a position below maxRowLength(l) in that row,    *)
(* also when the row later grows as a higher-layer row of other values;    *)
(* getRowsForValue gives the layer-i row as rows[i], and potentialMatches, *)
(* which reads the first maxRowLength(i) entries of rows[i], reads the     *)
(* entry and returns the log's index.                                      *)
(***************************************************************************)
\* The entry e is where it was placed, within the capacity of its layer.
entryInPlace(fm, e) ==
  /\ e.p <= maxRowLength(e.l)
  /\ Len(fm[e.r]) >= e.p
  /\ fm[e.r][e.p] = columnIndex(e.i, e.v)

\* The rows collected for e's value are the rows of layers 0, 1, ..., they
\* reach e's layer, and the scan does not stop before it.
rowsByLayer(fm, m, e) ==
  With(getRowsForValue(fm, m, e.v),
       LAMBDA rows :
         /\ Len(rows) > e.l
         /\ \A k \in 0..(Len(rows) - 1) : rows[k + 1] = fm[rowIndex(m, k, e.v)]
         /\ \A k \in 0..(e.l - 1) : Len(rows[k + 1]) >= maxRowLength(k))

entryFound(fm, m, e) ==
  e.i \in Range(potentialMatches(getRowsForValue(fm, m, e.v), m, e.v))

entriesReadable(fm, m, placed) ==
  \A e \in placed :
    /\ entryInPlace(fm, e)
    /\ rowsByLayer(fm, m, e)
    /\ entryFound(fm, m, e)

C31_EntryWithinLayerCapacity ==
  \A m \in usedMaps :
    With(placedIn(m),
         LAMBDA b :
           /\ b.ok
           /\ getFilterMap(filterMapCache, m)[1] = b.fm
           /\ entriesReadable(b.fm, m, b.placed)
           /\ m < nextMapID => entriesReadable(loadFilterMap(m), m, b.placed))

\* A sealed map with an entry placed at layer 0 whose row has since grown
\* past the capacity of layer 0, and an entry placed at layer 1 or above at
\* a position past the capacity of layer 0.
C31_Witness ==
  \E m \in usedMaps :
    /\ m < nextMapID
    /\ \E e \in placedIn(m).placed :
          /\ e.l = 0
          /\ Len(loadFilterMap(m)[e.r]) > maxRowLength(0)
    /\ \E e \in placedIn(m).placed :
          /\ e.l >= 1
          /\ e.p > maxRowLength(0)
          /\ entryFound(loadFilterMap(m), m, e)

(***************************************************************************)
(* A specification of the functions of Params called by themselves         *)
(* (params.go:63-92): columnIndex and rowIndex on log-value indices, map   *)
(* indices, layers and 32-byte values drawn from bounded sets, the values  *)
(* of the model's addresses and topics among them.  A behaviour is one     *)
(* call.                                                                   *)
(***************************************************************************)
MaxCalcIndex == 40
MaxCalcMap == 18
MaxCalcLayer == 8
NumCalcValues == 6

\* common.Hash values: byte k is (b * k + b) mod 256.
calcValue(b) == [k \in 1..32 |-> (b * k + b) % 256]

CalcValues == LogValues \cup {calcValue(b) : b \in 1..NumCalcValues}
CalcIndices == 0..MaxCalcIndex
CalcMaps == 0..MaxCalcMap
CalcLayers == 0..MaxCalcLayer

calcUnchanged ==
  UNCHANGED <<db, indexerVars, ingested, query, result, restartVars, run,
              envVars, mu, writers, lookups>>

\* params.go:75-84
CallColumnIndex ==
  /\ calc = noCalc
  /\ \E lvIndex \in CalcIndices, logValue \in CalcValues :
        calc' = [op |-> "columnIndex", lvIndex |-> lvIndex,
                 logValue |-> logValue,
                 out |-> computeColumnIndex(lvIndex, logValue)]
  /\ calcUnchanged

\* params.go:63-73 with maskedMapIndex (86-92)
CallRowIndex ==
  /\ calc = noCalc
  /\ \E mapIndex \in CalcMaps, layerIndex \in CalcLayers,
        logValue \in CalcValues :
        calc' = [op |-> "rowIndex", mapIndex |-> mapIndex,
                 layerIndex |-> layerIndex, logValue |-> logValue,
                 masked |-> maskedMapIndex(mapIndex, layerIndex),
                 out |-> computeRowIndex(mapIndex, layerIndex, logValue)]
  /\ calcUnchanged

\* params.go:47-53
CallAddressValue ==
  /\ calc = noCalc
  /\ \E a \in Addresses :
        calc' = [op |-> "addressValue", address |-> a,
                 out |-> sha256(AddressBytes(a))]
  /\ calcUnchanged

\* params.go:55-61
CallTopicValue ==
  /\ calc = noCalc
  /\ \E t \in Topics :
        calc' = [op |-> "topicValue", topic |-> t,
                 out |-> sha256(TopicBytes(t))]
  /\ calcUnchanged

NextParams ==
  CallColumnIndex \/ CallRowIndex \/ CallAddressValue \/ CallTopicValue

\* The tabulated digests are the computed ones: addressValue and topicValue
\* are the sha256 of their bytes, and rowIndex is the row computed from the
\* digest of the value, the masked map index and the layer.
hashesAsTabulated ==
  /\ calc.op = "addressValue" => addressValue(calc.address) = calc.out
  /\ calc.op = "topicValue" => topicValue(calc.topic) = calc.out
  /\ calc.op = "rowIndex" /\ calc.logValue \in LogValues
       => rowIndex(calc.mapIndex, calc.layerIndex, calc.logValue) = calc.out

SpecParams == Init /\ [][NextParams]_vars

(***************************************************************************)
(* C33.  Column index encoding: for every log-value index and value,       *)
(* columnIndex(lvIndex, value) is below 2^logMapWidth, its high bits       *)
(* columnIndex >> (logMapWidth - logValuesPerMap) are lvIndex mod          *)
(* valuesPerMap, and only its low logMapWidth - logValuesPerMap bits       *)
(* depend on the value: the hash part never carries into the position      *)
(* bits.                                                                   *)
(***************************************************************************)
calledColumnIndex == calc.op = "columnIndex"

C33_ColumnIndexEncoding ==
  calledColumnIndex
    => /\ calc.out < Pow2(logMapWidth)
       /\ Shr(calc.out, hashBits) = calc.lvIndex % valuesPerMap
       /\ calc.out - Shl(calc.lvIndex % valuesPerMap, hashBits) \in 0..(Pow2(hashBits) - 1)
       /\ \A w \in CalcValues :
             Shr(computeColumnIndex(calc.lvIndex, w), hashBits)
               = Shr(calc.out, hashBits)
       /\ columnIndex(calc.lvIndex, calc.logValue) = calc.out

\* An index past the first map whose column has hash bits set, and a second
\* value with other hash bits at the same index.
C33_Witness ==
  /\ calledColumnIndex
  /\ calc.lvIndex > valuesPerMap
  /\ calc.lvIndex % valuesPerMap # 0
  /\ calc.out % Pow2(hashBits) = Pow2(hashBits) - 1
  /\ \E w \in CalcValues :
        computeColumnIndex(calc.lvIndex, w) # calc.out

(***************************************************************************)
(* C34.  Row sharing across maps by layer.  As stated: at layer L the row  *)
(* index of a value depends on the map index only through the masked map   *)
(* index, and two maps have the same masked map index at layer L exactly   *)
(* when they belong to the same aligned group of                           *)
(*   2^min(L * logLayerDiff, logMapsPerEpoch)                              *)
(* adjacent maps, so higher layers span wider map ranges.                  *)
(* As the code has it: the aligned group is of                             *)
(*   2^(logMapsPerEpoch - min(L * logLayerDiff, logMapsPerEpoch))          *)
(* adjacent maps: layer 0 gives all maps of an epoch the same row, and     *)
(* higher layers span narrower map ranges, down to a single map.           *)
(***************************************************************************)
calledRowIndex == calc.op = "rowIndex"

\* The row depends on the map through the masked map index alone.
rowByMaskedMap ==
  \A m \in CalcMaps :
    maskedMapIndex(m, calc.layerIndex) = calc.masked
      => computeRowIndex(m, calc.layerIndex, calc.logValue) = calc.out

\* Maps m and n are in the same aligned group of 2^k adjacent maps.
sameGroup(m, n, k) == Shr(m, k) = Shr(n, k)

statedGroupBits(layerIndex) ==
  IF layerIndex * logLayerDiff < logMapsPerEpoch
  THEN layerIndex * logLayerDiff ELSE logMapsPerEpoch

groupBits(layerIndex) == logMapsPerEpoch - statedGroupBits(layerIndex)

C34_RowSharingAsStated ==
  calledRowIndex
    => /\ rowByMaskedMap
       /\ \A m \in CalcMaps :
             maskedMapIndex(m, calc.layerIndex) = calc.masked
               <=> sameGroup(m, calc.mapIndex, statedGroupBits(calc.layerIndex))

C34_RowSharingByLayer ==
  /\ hashesAsTabulated
  /\ calledRowIndex
       => /\ rowByMaskedMap
          /\ \A m \in CalcMaps :
                maskedMapIndex(m, calc.layerIndex) = calc.masked
                  <=> sameGroup(m, calc.mapIndex, groupBits(calc.layerIndex))
          /\ \A l \in CalcLayers :
                l >= calc.layerIndex => groupBits(l) <= groupBits(calc.layerIndex)

\* At layer 0 a map of the second epoch has the row of the epoch's first
\* map and not the row of the map before the epoch.
C34_Witness ==
  /\ calledRowIndex
  /\ calc.layerIndex = 0
  /\ calc.mapIndex = 2 * mapsPerEpoch - 1
  /\ calc.masked = mapsPerEpoch
  /\ computeRowIndex(mapsPerEpoch, 0, calc.logValue) = calc.out
  /\ maskedMapIndex(mapsPerEpoch - 1, 0) # calc.masked
  /\ maskedMapIndex(calc.mapIndex, 1) # maskedMapIndex(mapsPerEpoch, 1)

(***************************************************************************)
(* A specification of potentialMatches called by itself                    *)
(* (filtermap.go:54-86), after some blocks are ingested: on the rows       *)
(* getRowsForValue collects for a value in a map that holds logs, on any   *)
(* one or two rows of such a map, whatever their layers, and on a row      *)
(* with a single entry of any value up to twice the map width.  A          *)
(* behaviour is some IndexLogs calls and then one call of                  *)
(* potentialMatches.                                                       *)
(***************************************************************************)
MaxScanMap == 1

ScanMaps == 0..MaxScanMap

\* Rows holding one entry, in and out of the range of column indices.
probeRows == {<<<<c>>>> : c \in 0..(2 * Pow2(logMapWidth) - 1)}

\* The rows potentialMatches is called on for map m and value v.
scanInputs(m, v) ==
  probeRows
    \cup (IF m \notin usedMaps THEN {}
          ELSE With(getFilterMap(filterMapCache, m)[1],
                    LAMBDA fm :
                      {getRowsForValue(fm, m, v)}
                        \cup {<<fm[r]>> : r \in Rows}
                        \cup {<<fm[r], fm[q]>> : r \in Rows, q \in Rows}))

\* The rows are those of the value in the map.
rowsOfValue(rows, m, v) ==
  /\ m \in usedMaps
  /\ rows = getRowsForValue(getFilterMap(filterMapCache, m)[1], m, v)

IngestBeforeScan == calc = noCalc /\ IngestFew

\* filtermap.go:54-86
CallPotentialMatches ==
  /\ calc = noCalc
  /\ query = Nil
  /\ \E m \in ScanMaps, v \in LogValues :
        \E rows \in scanInputs(m, v) :
          calc' = [op |-> "potentialMatches", rows |-> rows, mapIndex |-> m,
                   logValue |-> v, ofValue |-> rowsOfValue(rows, m, v),
                   out |-> potentialMatches(rows, m, v)]
  /\ calcUnchanged

NextScan == IngestBeforeScan \/ CallPotentialMatches

SpecScan == Init /\ [][NextScan]_vars

(***************************************************************************)
(* C32.  potentialMatches(rows, m, v) returns a strictly ascending list    *)
(* (sorted, no duplicates) of log-value indices that all lie in the span   *)
(* of map m, [m << logValuesPerMap, (m + 1) << logValuesPerMap), each      *)
(* accepted only because some scanned entry c satisfies                    *)
(* columnIndex(p, v) = c for                                               *)
(*   p = mapFirst + (c >> (logMapWidth - logValuesPerMap));                *)
(* on the rows of v in map m it contains the index of every log of map m   *)
(* that carries value v.                                                   *)
(***************************************************************************)
calledPotentialMatches == calc.op = "potentialMatches"

strictlyAscending(seq) ==
  \A k \in 1..(Len(seq) - 1) : seq[k] < seq[k + 1]

\* The entries the scan reads: of rows[i] the first maxRowLength(i - 1), and
\* rows[i] only if every row before it holds maxRowLength entries or more.
scannedEntries(rows) ==
  UNION {{rows[i][j] : j \in 1..Min(Len(rows[i]), maxRowLength(i - 1))} :
           i \in {k \in 1..Len(rows) :
                    \A h \in 1..(k - 1) : Len(rows[h]) >= maxRowLength(h - 1)}}

\* The index the entry c stands for in map m.
indexOfEntry(m, c) == Shl(m, logValuesPerMap) + Shr(c, hashBits)

C32_PotentialMatches ==
  calledPotentialMatches
    => /\ strictlyAscending(calc.out)
       /\ \A p \in Range(calc.out) :
             /\ p >= Shl(calc.mapIndex, logValuesPerMap)
             /\ p < Shl(calc.mapIndex + 1, logValuesPerMap)
             /\ \E c \in scannedEntries(calc.rows) :
                   /\ p = indexOfEntry(calc.mapIndex, c)
                   /\ columnIndex(p, calc.logValue) = c
       /\ \A c \in scannedEntries(calc.rows) :
             columnIndex(indexOfEntry(calc.mapIndex, c), calc.logValue) = c
               => indexOfEntry(calc.mapIndex, c) \in Range(calc.out)
       /\ calc.ofValue
            => \A i \in indicesOfMap(calc.mapIndex) :
                  calc.logValue \in valuesOf(ingestedLogs[i + 1])
                    => i \in Range(calc.out)

\* The rows of a value in the second map, two of them, read in an order other
\* than ascending: two logs of the map carry the value and both are
\* returned, and an entry of another value in these rows is not accepted.
C32_Witness ==
  /\ calledPotentialMatches
  /\ calc.ofValue
  /\ calc.mapIndex = 1
  /\ Len(calc.rows) >= 2
  /\ Len(calc.out) >= 2
  /\ scanRows(calc.rows, 1, Shl(calc.mapIndex, logValuesPerMap), calc.logValue)
       # calc.out
  /\ \E c \in scannedEntries(calc.rows) :
        columnIndex(indexOfEntry(calc.mapIndex, c), calc.logValue) # c

(***************************************************************************)
(* C35.  Sealing discipline: in every reachable state with nextMapID = n   *)
(* the KV store holds a FilterMap and a LogData under the keys of every    *)
(* map id below n, each written exactly once, at the moment the first log  *)
(* of the next map arrived, and each holding exactly valuesPerMap logs,    *)
(* and holds none for map id n: the in-flight map exists only in memory.   *)
(* Checked with IndexLogs taken one step of its loop at a time, so that    *)
(* the moment of each write is a step.                                     *)
(***************************************************************************)
SealableMaps == 0..(MaxTotalLogs \div valuesPerMap + 1)

storedMap(store, m) ==
  /\ dbHas(store, filterMapKey(m))
  /\ dbHas(store, logDataKey(m))

noStoredMap(store, m) ==
  /\ ~dbHas(store, filterMapKey(m))
  /\ ~dbHas(store, logDataKey(m))

\* The maps below nextMapID are stored, full; no other map is.
sealedBelowCursor ==
  \A m \in SealableMaps :
    IF m < nextMapID
    THEN /\ storedMap(db, m)
         /\ Len(loadLogData(m).Logs) = valuesPerMap
         /\ loadLogData(m).MapID = m
         /\ loadFilterMap(m) # Nil
    ELSE noStoredMap(db, m)

\* Map m is written in this step.
writtenNow(m) ==
  \/ dbGet(db', filterMapKey(m)) # dbGet(db, filterMapKey(m))
  \/ dbGet(db', logDataKey(m)) # dbGet(db, logDataKey(m))

\* A map is written only in the step at the head of the iteration for the
\* first log of the next map, it is the full current map, and it was not
\* stored before.
sealedOnce ==
  \A m \in SealableMaps :
    /\ writtenNow(m)
         => /\ noStoredMap(db, m)
            /\ nextMapID = m
            /\ nextMapID' = m + 1
            /\ logCounter = valuesPerMap
            /\ logCounter' = 0
            /\ dbGet(db', filterMapKey(m)) = marshalFilterMap(currentMap)
            /\ dbGet(db', logDataKey(m)) = marshalLogData(currentLogData)
            /\ Len(currentLogData'.Logs) = 0
            /\ \E t \in WriterIds :
                  /\ writers[t].pc = "loop"
                  /\ writers[t].call.j = 0
                  /\ writers[t].call.k <= Len(writers[t].call.logs)
    /\ nextMapID' # nextMapID => writtenNow(nextMapID)

C35_SealingDiscipline == []sealedBelowCursor /\ [][sealedOnce]_vars

\* Two maps are sealed, the second by the call that is in its loop and has
\* just put the first log of the third map in place.
C35_Witness ==
  /\ nextMapID = 2
  /\ logCounter = 1
  /\ storedMap(db, 0)
  /\ storedMap(db, 1)
  /\ noStoredMap(db, 2)
  /\ \E t \in WriterIds : writers[t].pc = "loop" /\ writers[t].call.k > 1

(***************************************************************************)
(* C36.  The in-flight map never enters the LRU before it is sealed: in    *)
(* every reachable state, under any interleaving of IndexLogs and a query, *)
(* the FilterMap and LogData caches hold no entry for map id nextMapID     *)
(* (an entry gets there by sealing, which moves nextMapID on); a query for *)
(* map id nextMapID is served the current in-memory map and LogData; and   *)
(* the FilterMap and the LogData a query obtains for one map id belong to  *)
(* the same map.                                                           *)
(***************************************************************************)
\* The caches hold sealed maps only, each as the store has it.
cachesHoldSealedMaps ==
  /\ \A m \in DOMAIN filterMapCache :
        m < nextMapID /\ filterMapCache[m] = loadFilterMap(m)
  /\ \A m \in DOMAIN logDataCache :
        m < nextMapID /\ logDataCache[m] = loadLogData(m)

\* The FilterMap with the first j values of the log added at lvIndex.
RECURSIVE withValues(_, _, _, _, _)
withValues(fm, m, lvIndex, values, j) ==
  IF j = 0 THEN fm
  ELSE addValue(withValues(fm, m, lvIndex, values, j - 1), m, lvIndex,
                values[j])

\* The values an IndexLogs call in its loop has added to map m for the log
\* it has not appended to the list yet.
addedAhead(fm, m) ==
  IF m = nextMapID /\ \E t \in WriterIds : writers[t].pc = "loop"
  THEN LET t == CHOOSE u \in WriterIds : writers[u].pc = "loop"
       IN  withValues(fm, m, nextMapID * LogsPerMap + logCounter,
                      valuesInOrder(logAtHand(t)), writers[t].call.j)
  ELSE fm

\* The workers that are in processMap past getLogData.
inProcessMap ==
  IF run.pc \in {"select", "closing"}
  THEN {e \in run.workers.processing :
          run.work[e].pc \in {"addresses", "logs", "topics", "verify"}}
  ELSE {}

\* processMap has a FilterMap and a LogData of the map it asked for, the
\* FilterMap indexing the logs of the LogData and, of the log an IndexLogs
\* call is adding to the map, the values added so far, and nothing else.
sameMapObtained ==
  \A e \in inProcessMap :
    LET w == run.work[e]
        fm == heldFilterMap(w.fm, w.mapIndex)
        logData == heldLogData(w.logData, w.mapIndex)
    IN  /\ logData.MapID = w.mapIndex
        /\ fm = addedAhead(indexOfLogs(NewFilterMap, w.mapIndex,
                                       logData.Logs, 1), w.mapIndex)

\* getFilterMap or getLogData returns an object to the worker of the epoch
\* in this step.
filterMapServed(e) ==
  /\ workerAt(e, "getFilterMap")
  /\ e \in DOMAIN run'.work
  /\ run'.work[e].pc = "getLogData"
logDataServed(e) ==
  /\ workerAt(e, "getLogData")
  /\ e \in DOMAIN run'.work
  /\ run'.work[e].pc \notin {"getFilterMap", "getLogData"}

\* getLogData returns to the worker of the epoch, which has the FilterMap
\* of a sealed map, the LogData of one in this step, and processMap is run
\* on the two.
sealedLogDataServed(e) ==
  /\ workerAt(e, "getLogData")
  /\ ~run.work[e].fm.shared
  /\ getLogData(logDataCache, run.work[e].mapIndex)[1] # Nil
  /\ run'.work[e].mapIndex = run.work[e].mapIndex + 1

\* What is served for the current map id is the map in memory, for a lower
\* one the sealed map, with the FilterMap that indexes its logs.
servedFromMemory ==
  \A e \in Epochs :
    /\ sealedLogDataServed(e)
         => LET m == run.work[e].mapIndex
                logData == getLogData(logDataCache, m)[1]
            IN  /\ m < nextMapID
                /\ logData = loadLogData(m)
                /\ logData.MapID = m
                /\ run.work[e].fm.value
                     = indexOfLogs(NewFilterMap, m, logData.Logs, 1)
    /\ filterMapServed(e)
         => /\ run.work[e].mapIndex = nextMapID
                  => /\ run'.work[e].fm.shared
                     /\ heldFilterMap(run'.work[e].fm, run.work[e].mapIndex)
                          = currentMap
            /\ run.work[e].mapIndex < nextMapID
                  => run'.work[e].fm
                       = sealedRef(loadFilterMap(run.work[e].mapIndex))
    /\ logDataServed(e)
         => /\ run.work[e].mapIndex = nextMapID
                  => /\ run'.work[e].logData.shared
                     /\ heldLogData(run'.work[e].logData, run.work[e].mapIndex)
                          = currentLogData
            /\ run.work[e].mapIndex < nextMapID
                  => run'.work[e].logData
                       = sealedRef(loadLogData(run.work[e].mapIndex))

C36_InFlightMapNotCached ==
  /\ [](cachesHoldSealedMaps /\ sameMapObtained)
  /\ [][servedFromMemory]_vars

\* A query that went through a sealed map now has the in-flight map and its
\* LogData, while an IndexLogs call is in its loop; the sealed map is cached
\* and the in-flight one is not.
C36_Witness ==
  /\ \E e \in inProcessMap :
        /\ run.work[e].mapIndex = nextMapID
        /\ run.work[e].fm.shared
        /\ run.work[e].logData.shared
        /\ run.work[e].logs # <<>>
  /\ nextMapID >= 1
  /\ lruHas(filterMapCache, 0)
  /\ ~lruHas(filterMapCache, nextMapID)
  /\ ~lruHas(logDataCache, nextMapID)
  /\ \E t \in WriterIds : writers[t].pc = "loop"

(***************************************************************************)
(* A specification of the worker pool over many epochs: a block that ends  *)
(* in the last map of an epoch, a block of one log, a block that ends in   *)
(* the first map of the fourth epoch after it, so that its maps are of     *)
(* more epochs than there are workers, and blocks of one log after it.     *)
(* The second block is ingested between the queries or while a query is in *)
(* flight, the later ones between the queries.  The queries are for one    *)
(* address and two topic positions, so that a map has at most one match    *)
(* and the order within a map plays no part.  The context is not           *)
(* cancelled.                                                              *)
(***************************************************************************)
\* The block of many logs, the last but one.
PoolBulkBlock == MaxPoolBlocks - 1

poolBatchSize(blockNumber) ==
  IF blockNumber = 1 THEN MaxPoolFirstLogs
  ELSE IF blockNumber = PoolBulkBlock THEN MaxPoolLogsPerCall
  ELSE MaxPoolFewLogs

\* The shape of a log the narrow filter matches.
narrowShape ==
  CHOOSE s \in 0..(NumShapes - 1) :
    logShape(s, 0).Address = 1 /\ logShape(s, 0).Topics = <<1, 2>>

\* The logs of the second block are matches.
poolBatchSeed(blockNumber) == IF blockNumber = 2 THEN narrowShape ELSE 0

BeginIngestManyEpochs ==
  /\ nextBlock <= MaxPoolBlocks
  /\ nextBlock >= PoolBulkBlock => run.pc \in {"idle", "returned"}
  /\ BeginIndexLogs(nextBlock,
                    logBatch(poolBatchSeed(nextBlock),
                             poolBatchSize(nextBlock), nextBlock))

\* The epochs of the maps that can hold a log.
PoolEpochs == 0..Shr(Shr(MaxPoolLogs, logValuesPerMap), logMapsPerEpoch)

\* A query for the first address and the first topic at position 0 and the
\* second at position 1.  Once the block of many logs is ingested the query
\* is for that block: with the block after it ingested, a query over five
\* epochs.
StartNarrowFilter ==
  \E firstBlock \in 1..MaxPoolBlocks, lastBlock \in 1..MaxPoolBlocks :
    /\ firstBlock <= lastBlock
    /\ nextBlock > PoolBulkBlock
          => (firstBlock = PoolBulkBlock /\ lastBlock = PoolBulkBlock)
    /\ StartQuery(newQuery(firstBlock, lastBlock, <<1>>, <<(<<1>>), (<<2>>)>>))

NextPool ==
  \/ BeginIngestManyEpochs
  \/ IngesterLoops
  \/ IngesterReturns
  \/ StartNarrowFilter
  \/ Dispatch
  \/ ProcessEpochs
  \/ GetFilterMaps
  \/ GetLogDatas
  \/ MatchAddresses
  \/ MatchTopics
  \/ VerifyMatches
  \/ WorkerExit
  \/ Collect
  \/ Join
  \/ Return

SpecPool == Init /\ [][NextPool]_vars

(***************************************************************************)
(* C37.  Worker pool dispatch: in a query that returns successfully every  *)
(* epoch of firstEpoch..lastEpoch was dispatched exactly once and          *)
(* processed by exactly one worker, every map of firstMap..lastMap was     *)
(* processed exactly once, and at no time are more than 4 epochs being     *)
(* processed.                                                              *)
(***************************************************************************)
timesIn(seq, x) == Cardinality({k \in DOMAIN seq : seq[k] = x})

\* process() ran its loop to the end and returned the logs.
ranToEnd == successful /\ run.tasks = <<>> /\ run.waitEpoch > run.lastEpoch

dispatchedOnce ==
  /\ \A e \in run.firstEpoch..run.lastEpoch : timesIn(run.dispatched, e) = 1
  /\ Len(run.dispatched) = run.lastEpoch - run.firstEpoch + 1

processedOnce ==
  /\ DOMAIN run.finished = run.firstEpoch..run.lastEpoch
  /\ \A e \in run.firstEpoch..run.lastEpoch : run.finished[e] = 1

mapsVisitedOnce ==
  /\ DOMAIN run.visited = run.firstMap..run.lastMap
  /\ \A m \in run.firstMap..run.lastMap : run.visited[m] = 1

poolBounded ==
  run.pc # "idle" => Cardinality(run.workers.processing) <= 4

C37_WorkerPoolDispatch ==
  /\ poolBounded
  /\ ranToEnd => dispatchedOnce /\ processedOnce /\ mapsVisitedOnce

\* A returned query over five epochs, the first and the last of them cut by
\* firstMap and lastMap, in which four epochs were being processed before
\* any was finished.
C37_Witness ==
  /\ ranToEnd
  /\ run.lastEpoch - run.firstEpoch = 4
  /\ run.firstMap % mapsPerEpoch # 0
  /\ (run.lastMap + 1) % mapsPerEpoch # 0
  /\ run.firstFinished = run.firstEpoch + 3
  /\ result # <<>>

(***************************************************************************)
(* The worker pool under fair scheduling: a goroutine that can take a step *)
(* eventually takes one.  The coordinator's step is its select, with the   *)
(* send or the receive on a done channel ready; a worker's steps are those *)
(* of the processEpoch of the task it holds, the ones in getFilterMap and  *)
(* getLogData waiting for the read lock, and leaving the range loop on the *)
(* closed channel; the steps of the ingesting goroutine are those of the   *)
(* call it is in; wg.Wait() returns once every worker is done.             *)
(* For the worker holding the task of an epoch and for the ingesting       *)
(* goroutine the condition is weak fairness written out, with the state    *)
(* predicate that tells when a step can be taken, and a step told first by *)
(* what it changes.                                                        *)
(***************************************************************************)
CoordinatorStep == Dispatch \/ Collect

inProcessing(epochIndex) ==
  /\ run.pc \in {"select", "closing"}
  /\ epochIndex \in run.workers.processing

\* The worker of the epoch can take a step: it is past the last map of the
\* epoch, or in processMap with the objects at hand, or the read lock is
\* free.
workerCanStep(epochIndex) ==
  /\ inProcessing(epochIndex)
  /\ \/ run.work[epochIndex].pc \notin {"getFilterMap", "getLogData"}
     \/ run.work[epochIndex].mapIndex > run.work[epochIndex].lastMap
     \/ canRLock(mu)

WorkerSteps(epochIndex) ==
  /\ inProcessing(epochIndex)
  /\ \/ epochIndex \notin run'.workers.processing
     \/ run'.work[epochIndex] # run.work[epochIndex]
  /\ \/ Process(epochIndex)
     \/ GetFilterMap(epochIndex)
     \/ GetLogData(epochIndex)
     \/ MatchAddress(epochIndex)
     \/ CountLogs(epochIndex)
     \/ MatchTopic(epochIndex)
     \/ VerifyMatch(epochIndex)

workerFair(epochIndex) ==
  \/ []<>(~workerCanStep(epochIndex))
  \/ []<><<WorkerSteps(epochIndex)>>_vars

\* The ingesting goroutine is inside a call, in a process that runs.
inCall == running /\ writers[Ingester].pc \in {"loop", "return"}

IngesterSteps ==
  /\ inCall
  /\ writers'[Ingester] # writers[Ingester] \/ nextMapID' # nextMapID
  /\ IngesterLoops \/ IngesterReturns

ingesterFair ==
  \/ []<>(~inCall)
  \/ []<><<IngesterSteps>>_vars

SpecPoolFair ==
  /\ SpecPool
  /\ WF_vars(CoordinatorStep)
  /\ \A epochIndex \in PoolEpochs : workerFair(epochIndex)
  /\ ingesterFair
  /\ WF_vars(WorkerExit)
  /\ WF_vars(Join)

(***************************************************************************)
(* C38.  The coordinator terminates without deadlock: under fair           *)
(* scheduling and with no cancellation process() eventually returns the    *)
(* result of all epochs.  In its loop waitEpoch <= startEpoch and the task *)
(* of waitEpoch exists; every task sent is being processed or finished,    *)
(* and finished when process() returns, also when nil tasks have made idle *)
(* workers exit.                                                           *)
(***************************************************************************)
inLoop == run.pc = "select"

taskSent(e) == timesIn(run.dispatched, e) > 0

taskFinished(e) == e \in DOMAIN run.finished

waitsOnExistingTask ==
  inLoop => /\ run.waitEpoch <= run.startEpoch
            /\ run.waitEpoch \in DOMAIN run.tasks
            /\ run.waitEpoch < run.startEpoch => taskSent(run.waitEpoch)

sentTasksHeld ==
  run.pc \in {"select", "closing"}
    => \A e \in PoolEpochs :
         taskSent(e) => e \in run.workers.processing \/ taskFinished(e)

returnedAll ==
  /\ ranToEnd
  /\ \A e \in PoolEpochs : taskSent(e) => taskFinished(e)
  /\ run.logs = epochLists(run.firstEpoch)
  /\ processedOnce

C38_CoordinatorTerminates ==
  /\ [](waitsOnExistingTask /\ sentTasksHeld)
  /\ inLoop ~> returnedAll

\* C38 but for the panic of a worker: process() returns the result of all
\* epochs unless a worker has read a nil log of the list IndexLogs is
\* appending to (matcher.go:194-196) or behind the end of a row's array
\* that an append has replaced (filtermap.go:64), which ends the process.
C38_ReturnsUnlessPanicked ==
  /\ [](waitsOnExistingTask /\ sentTasksHeld)
  /\ inLoop ~> (returnedAll \/ ~running)

\* A query over five epochs has returned its logs after the coordinator sent
\* nil to each of the four workers.
C38_FiveEpochsReturned ==
  /\ returnedAll
  /\ run.lastEpoch - run.firstEpoch = 4
  /\ run.startEpoch = run.lastEpoch + 1 + NumWorkers
  /\ result # <<>>

(***************************************************************************)
(* C39.  Cursor invariants: after every completed IndexLogs call           *)
(* logCounter is at most valuesPerMap; the current LogData, when there is  *)
(* one, holds exactly logCounter logs, has the MapID nextMapID and a       *)
(* StartBlock not above its EndBlock; and totalLogIndex is                 *)
(* nextMapID * valuesPerMap + logCounter, which is the number of logs      *)
(* ingested so far.                                                        *)
(* StartBlock is the block of the call that made the LogData               *)
(* (indexer.go:93, 111), EndBlock the block of the call that appended last *)
(* (126), and no statement compares the two: after IndexLogs(2, ...) and   *)
(* IndexLogs(1, ...) with logs that fit one map StartBlock is 2 and        *)
(* EndBlock is 1.                                                          *)
(***************************************************************************)
currentLogDataAtCursor ==
  currentLogData # Nil
    => /\ Len(currentLogData.Logs) = logCounter
       /\ currentLogData.MapID = nextMapID
       /\ currentLogData.StartBlock <= currentLogData.EndBlock

C39_CursorInvariants ==
  /\ logCounter <= valuesPerMap
  /\ currentLogDataAtCursor
  /\ totalLogIndex = nextMapID * valuesPerMap + logCounter
  /\ totalLogIndex = Len(ingestedLogs)

\* What holds of the cursor in whatever order the blocks come: the counts.
C39_CursorCounts ==
  /\ logCounter <= valuesPerMap
  /\ currentLogData # Nil
       => /\ Len(currentLogData.Logs) = logCounter
          /\ currentLogData.MapID = nextMapID
  /\ totalLogIndex = nextMapID * valuesPerMap + logCounter
  /\ totalLogIndex = Len(ingestedLogs)

\* The current LogData was made for a later block than the one that
\* appended to it last.
C39_StartBlockAboveEndBlock ==
  /\ currentLogData # Nil
  /\ Len(currentLogData.Logs) = logCounter
  /\ currentLogData.StartBlock > currentLogData.EndBlock

(***************************************************************************)
(* A specification of the insertion alone (filtermap.go:17-43): a map is   *)
(* filled from empty by AddLogToMap calls for at most valuesPerMap logs,   *)
(* one addValue call a step, the logs taken from every (address, topics)   *)
(* pair.                                                                   *)
(***************************************************************************)
MaxInsertMap == 1

InsertMaps == 0..MaxInsertMap

\* NewFilterMap for the map with the index m.
StartMap ==
  /\ calc = noCalc
  /\ \E m \in InsertMaps :
        calc' = [op |-> "addValue", mapIndex |-> m, fm |-> NewFilterMap,
                 logs |-> 0, pending |-> <<>>, lvIndex |-> 0, calls |-> 0,
                 last |-> Nil]
  /\ calcUnchanged

\* filtermap.go:17: AddLogToMap is called for the next log of the map, the
\* values it will add being the address value and the topic values.
CallAddLogToMap ==
  /\ calc.op = "addValue"
  /\ calc.pending = <<>>
  /\ calc.logs < valuesPerMap
  /\ \E s \in 0..(NumShapes - 1) :
        calc' = [calc EXCEPT
                   !.pending = valueSeqOf(logShape(s, 1)),
                   !.lvIndex = Shl(calc.mapIndex, logValuesPerMap) + calc.logs]
  /\ calcUnchanged

\* filtermap.go:19, 23 with 27-43: the next addValue call of AddLogToMap.
CallAddValue ==
  /\ calc.op = "addValue"
  /\ calc.pending # <<>>
  /\ calc' = [calc EXCEPT
                !.last = [before |-> calc.fm, lvIndex |-> calc.lvIndex,
                          logValue |-> Head(calc.pending)],
                !.fm = addValue(calc.fm, calc.mapIndex, calc.lvIndex,
                                Head(calc.pending)),
                !.pending = Tail(calc.pending),
                !.logs = IF Len(calc.pending) = 1 THEN @ + 1 ELSE @,
                !.calls = @ + 1]
  /\ calcUnchanged

NextInsert == StartMap \/ CallAddLogToMap \/ CallAddValue

SpecInsert == Init /\ [][NextInsert]_vars

(***************************************************************************)
(* C40.  Insertion terminates: in every map holding at most valuesPerMap   *)
(* logs the layer loop of addValue finds, for every value, a row with      *)
(* fewer than maxRowLength(layer) entries after finitely many layers, and  *)
(* an addValue call appends the column index exactly once.                 *)
(***************************************************************************)
inserting == calc.op = "addValue"

\* The layers the loop is followed through.
MaxLoopLayer == 21

LoopLayers == 0..MaxLoopLayer

\* The loop for v, started on fm, ends at one of the layers followed.
loopEnds(fm, m, v) == \E l \in LoopLayers : rowShort(fm, m, l, v)

\* The layer it ends at: the first whose row has room.
endLayer(fm, m, v) ==
  CHOOSE l \in LoopLayers :
    /\ rowShort(fm, m, l, v)
    /\ \A k \in 0..(l - 1) : ~rowShort(fm, m, k, v)

\* The call for the value v of the log i appended columnIndex(i, v) to the
\* row of the layer the loop ended at, and changed nothing else.
appendedAtEndLayer(before, after, m, i, v) ==
  /\ loopEnds(before, m, v)
  /\ after = [before EXCEPT ![rowIndex(m, endLayer(before, m, v), v)] =
                              Append(@, columnIndex(i, v))]

entriesOf(fm) == LET RECURSIVE sum(_)
                     sum(r) == IF r < 0 THEN 0 ELSE Len(fm[r]) + sum(r - 1)
                 IN  sum(mapHeight - 1)

C40_InsertionTerminates ==
  inserting
    => /\ calc.logs <= valuesPerMap
       /\ \A v \in LogValues : loopEnds(calc.fm, calc.mapIndex, v)
       /\ entriesOf(calc.fm) = calc.calls
       /\ calc.last # Nil
            => appendedAtEndLayer(calc.last.before, calc.fm, calc.mapIndex,
                                  calc.last.lvIndex, calc.last.logValue)

\* A map filled with valuesPerMap logs of three values each, the last value
\* placed at the third layer or above, in which the loop for some value
\* finds the rows of the first nine layers full.
C40_Witness ==
  /\ inserting
  /\ calc.logs = valuesPerMap
  /\ calc.calls = 3 * valuesPerMap
  /\ endLayer(calc.last.before, calc.mapIndex, calc.last.logValue) >= 2
  /\ \E v \in LogValues :
        /\ \A l \in Layers : ~rowShort(calc.fm, calc.mapIndex, l, v)
        /\ loopEnds(calc.fm, calc.mapIndex, v)
====
